---- MODULE Spec2Model ----
(***************************************************************************)
(* hear-say: the speech queue engine (src/src/say.ts), its gap protocol    *)
(* and the listening coordinator (src/src/hear.ts) as one state machine.   *)
(*                                                                         *)
(* JavaScript runs one task at a time.  An action of this module is one    *)
(* task: an API call, a process event, a timer, or the continuation of a   *)
(* suspended processQueue() (a "drain").  A drain is suspended at one of   *)
(* its awaits:                                                             *)
(*   "speak"        awaiting the exit of the process it spawned            *)
(*   "speakNow"     awaiting speakOne() that resolved at once (duplicate)  *)
(*   "gap"          inside waitForGap(), awaiting the timer or the signal  *)
(*   "gapSignaled"  inside waitForGap(), the signal settled an input of    *)
(*                  Promise.race, whose reaction is queued                 *)
(*   "gapEnd"       inside waitForGap(), the race is settled               *)
(*   "gapNow"       awaiting waitForGap() that has returned                *)
(* The last four are continuations in the microtask queue, which is first  *)
(* in, first out: they run before any timer or process event, but code of  *)
(* the caller that is already running (or queued before them) runs first.  *)
(***************************************************************************)
EXTENDS Integers, Sequences, FiniteSets, TLC

\* ---------------------------------------------------------------- bounds
MaxCalls == 3
MaxSysCalls == 2
MaxHearCalls == 2
MaxData == 2
MaxReduceCalls == 2
MaxListeners == 2
MaxHandleCalls == 2

\* ------------------------------------------------------------- constants
DefaultGapMs == 2000
DefaultTimeoutMs == 1200
OtherTimeoutMs == 1600

\* ------------------------------------------------------------------ text
\* A text is a sequence of one-character strings.
WordChars == {"a", "b"}
SpaceChars == {" "}
TextA == <<"a">>
TextB == <<"b">>
TextAB == <<"a", " ", "b">>
Texts == {TextA, TextB, TextAB}
Empty == <<>>

NoProcess == 0
NoResolver == 0

Min(x, y) == IF x < y THEN x ELSE y
Max(x, y) == IF x > y THEN x ELSE y
Range(q) == {q[i] : i \in 1..Len(q)}

\* /\w/.test(t[i] || '') with a 0-based index i, as JavaScript indexes strings
IsWordAt(t, i) == i >= 0 /\ i < Len(t) /\ t[i + 1] \in WordChars
\* /[^\w]/.test(t[i]) with a 0-based index i inside the string
IsNonWordAt(t, i) == i >= 0 /\ i < Len(t) /\ t[i + 1] \notin WordChars

\* String.prototype.slice(from, to) with 0 <= from
Slice(t, from, to) == IF to <= from THEN Empty ELSE SubSeq(t, from + 1, to)

RECURSIVE TrimStart(_)
TrimStart(t) == IF t # Empty /\ Head(t) \in SpaceChars THEN TrimStart(Tail(t)) ELSE t
RECURSIVE TrimEnd(_)
TrimEnd(t) ==
  IF t # Empty /\ t[Len(t)] \in SpaceChars THEN TrimEnd(SubSeq(t, 1, Len(t) - 1)) ELSE t
Trim(t) == TrimEnd(TrimStart(t))

\* say.ts 79-84: character-level common prefix
RECURSIVE CommonPrefix(_, _, _)
CommonPrefix(newText, lastText, k) ==
  IF k < Len(newText) /\ k < Len(lastText) /\ newText[k + 1] = lastText[k + 1]
  THEN CommonPrefix(newText, lastText, k + 1) ELSE k
\* say.ts 87-89: snap the prefix back to a word boundary
RECURSIVE SnapPrefix(_, _)
SnapPrefix(newText, k) ==
  IF k > 0 /\ IsWordAt(newText, k - 1) /\ IsWordAt(newText, k)
  THEN SnapPrefix(newText, k - 1) ELSE k
\* say.ts 91-93: extend the prefix over punctuation and whitespace
RECURSIVE ExtendPrefix(_, _)
ExtendPrefix(newText, k) ==
  IF k < Len(newText) /\ IsNonWordAt(newText, k) THEN ExtendPrefix(newText, k + 1) ELSE k
\* say.ts 96-101: character-level common suffix that does not overlap the prefix
RECURSIVE CommonSuffix(_, _, _, _)
CommonSuffix(newText, lastText, maxSuffix, n) ==
  IF n < maxSuffix /\ newText[Len(newText) - n] = lastText[Len(lastText) - n]
  THEN CommonSuffix(newText, lastText, maxSuffix, n + 1) ELSE n
\* say.ts 104-107
RECURSIVE SnapSuffix(_, _)
SnapSuffix(newText, n) ==
  IF n > 0 /\ IsWordAt(newText, Len(newText) - n) /\ IsWordAt(newText, Len(newText) - n - 1)
  THEN SnapSuffix(newText, n - 1) ELSE n
\* say.ts 109-111
RECURSIVE ExtendSuffix(_, _, _)
ExtendSuffix(newText, prefixLength, n) ==
  IF n < Len(newText) - prefixLength /\ IsNonWordAt(newText, Len(newText) - 1 - n)
  THEN ExtendSuffix(newText, prefixLength, n + 1) ELSE n

\* say.ts 77-125.  The result Empty stands for undefined (skip the utterance).
reduceRepetition(newText, lastText) ==
  LET prefixLength == ExtendPrefix(newText, SnapPrefix(newText, CommonPrefix(newText, lastText, 0)))
      maxSuffix == Min(Len(newText) - prefixLength, Len(lastText) - prefixLength)
      suffixLength == ExtendSuffix(newText, prefixLength,
                        SnapSuffix(newText, CommonSuffix(newText, lastText, maxSuffix, 0)))
  IN Trim(Slice(newText, prefixLength, Len(newText) - suffixLength))

\* ------------------------------------------------- hear.ts: pure helpers
PunctChars == {","}
Newline == "\n"
Lower(c) == IF c = "A" THEN "a" ELSE c

RECURSIVE MapLower(_)
MapLower(t) == IF t = Empty THEN Empty ELSE <<Lower(Head(t))>> \o MapLower(Tail(t))
\* replaceAll(/[^\w\s]/g, '')
RECURSIVE StripPunct(_)
StripPunct(t) ==
  IF t = Empty THEN Empty
  ELSE IF Head(t) \in WordChars \cup SpaceChars THEN <<Head(t)>> \o StripPunct(Tail(t))
  ELSE StripPunct(Tail(t))
\* hear.ts 30-32
normalize(t) == Trim(StripPunct(MapLower(t)))

\* String.prototype.split(/\s+/): the pieces between the runs of whitespace
RECURSIVE SplitWS(_, _, _, _)
SplitWS(t, i, cur, acc) ==
  IF i > Len(t) THEN Append(acc, cur)
  ELSE IF t[i] \in SpaceChars
       THEN IF i > 1 /\ t[i - 1] \in SpaceChars THEN SplitWS(t, i + 1, cur, acc)
            ELSE SplitWS(t, i + 1, Empty, Append(acc, cur))
       ELSE SplitWS(t, i + 1, Append(cur, t[i]), acc)
Words(t) == SplitWS(t, 1, Empty, <<>>)

\* Array.prototype.join(' ')
RECURSIVE JoinWords(_)
JoinWords(ws) ==
  IF ws = <<>> THEN Empty
  ELSE IF Len(ws) = 1 THEN ws[1]
  ELSE ws[1] \o <<" ">> \o JoinWords(Tail(ws))

\* hear.ts 39-53: the matched indices are 0 .. n-1, n the number returned here
RECURSIVE findSubsequenceMatches(_, _, _, _)
findSubsequenceMatches(spokenTokens, heardSlice, i, spokenIndex) ==
  IF spokenTokens = <<>> \/ i > Len(heardSlice) \/ spokenIndex = Len(spokenTokens)
  THEN spokenIndex
  ELSE IF heardSlice[i] = spokenTokens[spokenIndex + 1]
       THEN findSubsequenceMatches(spokenTokens, heardSlice, i + 1, spokenIndex + 1)
       ELSE findSubsequenceMatches(spokenTokens, heardSlice, i + 1, spokenIndex)

CeilDiv(a, b) == (a + b - 1) \div b
BOUNDARY_WORDS == 3

\* hear.ts 56-74, matched = 0 .. nMatched-1
boundaryMatches(spokenTokens, nMatched, atStart) ==
  LET n == Len(spokenTokens)
      boundaryCount == Min(BOUNDARY_WORDS, CeilDiv(n, 3))
      boundaryHits ==
        IF atStart THEN Cardinality({i \in (n - boundaryCount)..(n - 1) : i < nMatched})
        ELSE Cardinality({i \in 0..(boundaryCount - 1) : i < nMatched})
  IN boundaryHits >= CeilDiv(boundaryCount * 66, 100)

\* hear.ts 98-105
RECURSIVE RemoveCount(_, _, _, _)
RemoveCount(heardTokens, spokenTokens, index, matchIndex) ==
  IF index < Len(heardTokens) /\ matchIndex < Len(spokenTokens)
  THEN RemoveCount(heardTokens, spokenTokens, index + 1,
         IF heardTokens[index + 1] = spokenTokens[matchIndex + 1] THEN matchIndex + 1 ELSE matchIndex)
  ELSE index
\* hear.ts 118-125
RECURSIVE KeepCount(_, _, _, _)
KeepCount(heardTokens, spokenTokens, index, matchIndex) ==
  IF index >= 0 /\ matchIndex >= 0
  THEN KeepCount(heardTokens, spokenTokens, index - 1,
         IF heardTokens[index + 1] = spokenTokens[matchIndex + 1] THEN matchIndex - 1 ELSE matchIndex)
  ELSE index + 1

\* hear.ts 76-130.  MATCH_THRESHOLD 0.7 and the window factor 1.3 in tenths
\* (exact for the token counts below 10 that the model's texts have).
filterSpokenText(heard, spoken) ==
  IF spoken = Empty THEN heard
  ELSE
    LET spokenTokens == Words(normalize(spoken))
        heardTokens == Words(normalize(heard))
        originalWords == Words(Trim(heard))
        windowSize == Min(Len(heardTokens), CeilDiv(Len(spokenTokens) * 13, 10))
        startSlice == SubSeq(heardTokens, 1, windowSize)
        startMatched == findSubsequenceMatches(spokenTokens, startSlice, 1, 0)
        endStart == Max(0, Len(heardTokens) - windowSize)
        endSlice == SubSeq(heardTokens, endStart + 1, Len(heardTokens))
        endMatched == findSubsequenceMatches(spokenTokens, endSlice, 1, 0)
    IN IF startMatched * 10 >= 7 * Len(spokenTokens)
          /\ boundaryMatches(spokenTokens, startMatched, TRUE)
       THEN JoinWords(Slice(originalWords,
              RemoveCount(heardTokens, spokenTokens, 0, 0), Len(originalWords)))
       ELSE IF endMatched * 10 >= 7 * Len(spokenTokens)
               /\ boundaryMatches(spokenTokens, endMatched, FALSE)
       THEN JoinWords(Slice(originalWords, 0,
              Min(Len(originalWords),
                  KeepCount(heardTokens, spokenTokens, Len(heardTokens) - 1, Len(spokenTokens) - 1))))
       ELSE heard

\* String.prototype.split('\n')
RECURSIVE SplitLines(_, _, _)
SplitLines(t, cur, acc) ==
  IF t = Empty THEN Append(acc, cur)
  ELSE IF Head(t) = Newline THEN SplitLines(Tail(t), Empty, Append(acc, cur))
  ELSE SplitLines(Tail(t), Append(cur, Head(t)), acc)


\* ----------------------------------------------------------------- state
VARIABLES
  \* say.ts
  speechQueue,            \* sequence of entries [eid, text, res]; res names the completion
  latestEntry,            \* <<>> or <<entry>>
  pendingInterrupt,       \* <<>> or <<[text, res, clear]>>
  activeProcess,          \* id of the output process, NoProcess for undefined
  lastSpoken,
  speaking,
  processingQueue,
  repeatReductionEnabled,
  gapDuration,
  gapStartListeners,      \* sequence of listener names
  gapCompletionResolver,  \* generation of the drain whose gap it settles, or NoResolver
  queueGeneration,
  drains,                 \* the suspended processQueue() calls: [gen, pc, proc, res]
  microtasks,             \* generations of the drains in the microtask queue, in order
  sayProcs,               \* output processes spawned and not yet exited: [id, killed]
  \* hear.ts
  hearActiveProcess,      \* hear.ts activeProcess
  currentCallback,        \* 0 for undefined, else the handler's number
  silenceTimer,           \* TRUE while the silence timer is armed
  lastLine,
  timeoutDuration,
  shouldRestart,
  hearProcs,              \* input processes spawned and not yet exited: [id, killed, lineBuffer]
  \* mute.ts (src/unnamed/part_000)
  hearMuted,
  muteListeners,          \* the listeners of the registry of mute.ts, in order
  \* loopback.ts: the closure of the loopback() call, see NoLoopback
  loop,
  \* process.env as say.ts 55-57 reads it when the module loads; 0 for a
  \* variable that is unset, empty or not a number
  env,
  \* the environment's view
  nCalls,                 \* say(text) calls made; a call's number names its completion
  nHalts,                 \* say(false) calls made
  lastCall,               \* the last say() call: [name, text, mark, interrupted], mark the
                          \* number of launches before it, interrupted the text it cut off
  nHear,                  \* hear() calls made
  nData,                  \* chunks written by input processes
  launched,               \* the output processes launched, in order: [text, spoken, res]
  rates,                  \* the -r argument of each of them, in the same order
  handles,                \* the unregister handles onSayGapStart returned, in order:
                          \* [listener, calls], calls the times the handle was called
  invoked,                \* the listeners the last step invoked, in order
  thrown,                 \* an exception left the last step's handler uncaught
  resolved,               \* the completions resolved, in order
  emitted,                \* the lifecycle events the last step emitted, in order
  heard,                  \* the handler invocations of the last step: [cb, text]
  speechOn,               \* speech-started was emitted and speech-finished not since
  gapOn,                  \* gap-started was emitted and gap-ended not since
  op                      \* the last step

vars == <<speechQueue, latestEntry, pendingInterrupt, activeProcess, lastSpoken, speaking,
          processingQueue, repeatReductionEnabled, gapDuration, gapStartListeners,
          gapCompletionResolver, queueGeneration, drains, microtasks, sayProcs,
          hearActiveProcess, currentCallback, silenceTimer, lastLine, timeoutDuration,
          shouldRestart, hearProcs, nCalls, nHalts, lastCall, nHear, nData, launched, resolved, emitted,
          heard, speechOn, hearMuted, env, rates, muteListeners, handles, invoked, thrown, loop, gapOn, op>>

\* The state as one record, so that a handler's code composes as functions.
State(o) ==
  [speechQueue |-> speechQueue, latestEntry |-> latestEntry,
   pendingInterrupt |-> pendingInterrupt, activeProcess |-> activeProcess,
   lastSpoken |-> lastSpoken, speaking |-> speaking, processingQueue |-> processingQueue,
   repeatReductionEnabled |-> repeatReductionEnabled, gapDuration |-> gapDuration,
   gapStartListeners |-> gapStartListeners, gapCompletionResolver |-> gapCompletionResolver,
   queueGeneration |-> queueGeneration, drains |-> drains, microtasks |-> microtasks,
   sayProcs |-> sayProcs,
   hearActiveProcess |-> hearActiveProcess, currentCallback |-> currentCallback,
   silenceTimer |-> silenceTimer, lastLine |-> lastLine, timeoutDuration |-> timeoutDuration,
   shouldRestart |-> shouldRestart, hearProcs |-> hearProcs, hearMuted |-> hearMuted,
   nCalls |-> nCalls, nHalts |-> nHalts, lastCall |-> lastCall, nHear |-> nHear, nData |-> nData,
   launched |-> launched, rates |-> rates, resolved |-> resolved, env |-> env,
   muteListeners |-> muteListeners, handles |-> handles, loop |-> loop,
   emitted |-> <<>>, heard |-> <<>>, invoked |-> <<>>, thrown |-> FALSE, op |-> o]

Becomes(s) ==
  /\ speechQueue' = s.speechQueue
  /\ latestEntry' = s.latestEntry
  /\ pendingInterrupt' = s.pendingInterrupt
  /\ activeProcess' = s.activeProcess
  /\ lastSpoken' = s.lastSpoken
  /\ speaking' = s.speaking
  /\ processingQueue' = s.processingQueue
  /\ repeatReductionEnabled' = s.repeatReductionEnabled
  /\ gapDuration' = s.gapDuration
  /\ gapStartListeners' = s.gapStartListeners
  /\ gapCompletionResolver' = s.gapCompletionResolver
  /\ queueGeneration' = s.queueGeneration
  /\ drains' = s.drains
  /\ microtasks' = s.microtasks
  /\ sayProcs' = s.sayProcs
  /\ hearActiveProcess' = s.hearActiveProcess
  /\ currentCallback' = s.currentCallback
  /\ silenceTimer' = s.silenceTimer
  /\ lastLine' = s.lastLine
  /\ timeoutDuration' = s.timeoutDuration
  /\ shouldRestart' = s.shouldRestart
  /\ hearProcs' = s.hearProcs
  /\ hearMuted' = s.hearMuted
  /\ nCalls' = s.nCalls
  /\ nHalts' = s.nHalts
  /\ lastCall' = s.lastCall
  /\ nHear' = s.nHear
  /\ nData' = s.nData
  /\ launched' = s.launched
  /\ rates' = s.rates
  /\ env' = s.env
  /\ muteListeners' = s.muteListeners
  /\ handles' = s.handles
  /\ loop' = s.loop
  /\ invoked' = s.invoked
  /\ thrown' = s.thrown
  /\ resolved' = s.resolved
  /\ emitted' = s.emitted
  /\ heard' = s.heard
  /\ speechOn' = LET ev == SelectSeq(s.emitted, LAMBDA e : e \in {"start", "finish"})
                 IN IF ev = <<>> THEN speechOn ELSE ev[Len(ev)] = "start"
  /\ gapOn' = LET ev == SelectSeq(s.emitted, LAMBDA e : e \in {"gapStart", "gapEnd"})
              IN IF ev = <<>> THEN gapOn ELSE ev[Len(ev)] = "gapStart"
  /\ op' = s.op

\* The smallest process id no live process has (an exited process leaves no reference).
FreshPid(procs) ==
  CHOOSE i \in 1..(Cardinality(procs) + 1) :
    /\ \A p \in procs : p.id # i
    /\ \A j \in 1..(i - 1) : \E p \in procs : p.id = j

\* proc.kill(signal) on a process that has not exited
MarkKilled(procs, pid) == {IF p.id = pid THEN [p EXCEPT !.killed = TRUE] ELSE p : p \in procs}

\* ------------------------------------------------------ hear.ts: handlers
\* hear.ts 132-137
clearSilenceTimer(s) == [s EXCEPT !.silenceTimer = FALSE]
\* hear.ts 152-158
resetSilenceTimer(s) == [clearSilenceTimer(s) EXCEPT !.silenceTimer = TRUE]

\* hear.ts 139-150
cleanup(s) ==
  LET s1 == clearSilenceTimer([s EXCEPT !.shouldRestart = FALSE, !.currentCallback = 0])
      s2 == IF s1.hearActiveProcess # NoProcess
            THEN [s1 EXCEPT !.hearProcs = MarkKilled(@, s1.hearActiveProcess),
                            !.hearActiveProcess = NoProcess]
            ELSE s1
  IN [s2 EXCEPT !.lastLine = Empty]

\* hear.ts 198-246 (the handlers it installs are the actions HearData and HearExit)
startListening(s) ==
  LET pid == FreshPid(s.hearProcs)
  IN resetSilenceTimer(
       [s EXCEPT !.lastLine = Empty, !.shouldRestart = TRUE,
                 !.hearProcs = @ \cup {[id |-> pid, killed |-> FALSE, lineBuffer |-> Empty]},
                 !.hearActiveProcess = pid])

\* hear.ts 296-306
hearOnSayStarted(s) ==
  IF s.hearActiveProcess # NoProcess
  THEN clearSilenceTimer(
         [s EXCEPT !.shouldRestart = FALSE,
                   !.hearProcs = MarkKilled(@, s.hearActiveProcess),
                   !.hearActiveProcess = NoProcess,
                   !.lastLine = Empty])
  ELSE s

\* (mutant) listening restarts after speech whether or not a handler is registered
hearOnSayFinishedAlways(s) ==
  LET s1 == [s EXCEPT !.lastLine = Empty]
  IN IF s1.hearActiveProcess = NoProcess THEN startListening(s1) ELSE s1

\* hear.ts 309-316
hearOnSayFinished(s) ==
  LET s1 == [s EXCEPT !.lastLine = Empty]
  IN IF s1.currentCallback # 0 /\ s1.hearActiveProcess = NoProcess
     THEN startListening(s1) ELSE s1

\* ------------------------------------------------------- say.ts: helpers
\* Calling a completion's resolve function; a second call changes nothing.
Resolve(s, res) ==
  IF res = 0 \/ res \in Range(s.resolved) THEN s
  ELSE [s EXCEPT !.resolved = Append(@, res)]

RECURSIVE ResolveAll(_, _)
ResolveAll(s, q) == IF q = <<>> THEN s ELSE ResolveAll(Resolve(s, Head(q).res), Tail(q))

\* The listeners a caller registers: u1 and u2 return, x1 throws when invoked,
\* o1 calls its own unregister handle and r1 the unregister handle of u1.
ListenerNames == {"u1", "u2", "x1", "o1", "r1"}
Faulty == {"x1"}
Unregisters(l) == IF l = "o1" THEN "o1" ELSE IF l = "r1" THEN "u1" ELSE "none"

\* indexOf and splice(index, 1): the first occurrence of l leaves the array
RemoveFirst(q, l) ==
  IF \E i \in 1..Len(q) : q[i] = l
  THEN LET index == CHOOSE i \in 1..Len(q) : q[i] = l /\ \A j \in 1..(i - 1) : q[j] # l
       IN SubSeq(q, 1, index - 1) \o SubSeq(q, index + 1, Len(q))
  ELSE q

\* for (const listener of listeners) { listener() } on the array named by
\* field: the array iterator reads the live array by index, so a splice made
\* by a listener moves the elements under it.  Each call is inside try/catch
\* when caught holds: a listener that throws ends the loop unless it is caught.
RECURSIVE NotifyFrom(_, _, _, _)
NotifyFrom(s, field, index, caught) ==
  IF index > Len(s[field]) THEN s
  ELSE LET listener == s[field][index]
           s1 == [s EXCEPT !.invoked = Append(@, listener)]
           s2 == [s1 EXCEPT ![field] = RemoveFirst(@, Unregisters(listener))]
       IN IF listener \in Faulty /\ ~caught THEN [s1 EXCEPT !.thrown = TRUE]
          ELSE NotifyFrom(s2, field, index + 1, caught)

Notify(s, field, caught) == NotifyFrom(s, field, 1, caught)

\* say.ts 127-131; hear.ts registers its listener when the module loads
emitStart(s) == hearOnSayStarted([s EXCEPT !.emitted = Append(@, "start")])
\* say.ts 133-137
emitFinish(s) == hearOnSayFinished([s EXCEPT !.emitted = Append(@, "finish")])
\* say.ts 139-143
emitGapStart(s) ==
  Notify([s EXCEPT !.emitted = Append(@, "gapStart")], "gapStartListeners", TRUE)
\* say.ts 145-150
emitGapEnd(s) ==
  [s EXCEPT !.gapCompletionResolver = NoResolver, !.emitted = Append(@, "gapEnd")]

\* say.ts 55-57: Number(process.env.X) || default
MIN_RATE(s) == IF s.env.MIN_RATE # 0 THEN s.env.MIN_RATE ELSE 200
MAX_RATE(s) == IF s.env.MAX_RATE # 0 THEN s.env.MAX_RATE ELSE 300
WORD_THRESHOLD(s) == IF s.env.WORD_QUEUE_PLATEAU # 0 THEN s.env.WORD_QUEUE_PLATEAU ELSE 30

\* text.split(/\s+/).filter(w => w.length > 0).length
WordCount(t) == Len(SelectSeq(Words(t), LAMBDA w : w # Empty))

RECURSIVE QueueWords(_)
QueueWords(q) == IF q = <<>> THEN 0 ELSE WordCount(Head(q).text) + QueueWords(Tail(q))

\* Math.round of the quotient num / den, den > 0: the nearest integer, a half upwards
RoundDiv(num, den) == (2 * num + den) \div (2 * den)

\* (mutant) the word count is not capped at the plateau
calculateRateUncapped(s, currentText) ==
  LET wordCount == WordCount(currentText) + QueueWords(s.speechQueue)
  IN RoundDiv(MIN_RATE(s) * WORD_THRESHOLD(s) + wordCount * (MAX_RATE(s) - MIN_RATE(s)),
              WORD_THRESHOLD(s))

\* say.ts 60-71
calculateRate(s, currentText) ==
  LET wordCount == WordCount(currentText) + QueueWords(s.speechQueue)
  IN RoundDiv(MIN_RATE(s) * WORD_THRESHOLD(s)
                + Min(wordCount, WORD_THRESHOLD(s)) * (MAX_RATE(s) - MIN_RATE(s)),
              WORD_THRESHOLD(s))

\* (mutant) every text is handed to a process, a duplicate as it is
speakOneAlways(s, text, d) ==
  LET pid == FreshPid(s.sayProcs)
  IN [s EXCEPT !.lastSpoken = text,
               !.rates = Append(@, calculateRate(s, text)),
               !.sayProcs = @ \cup {[id |-> pid, killed |-> FALSE]},
               !.activeProcess = pid,
               !.launched = Append(@, [text |-> text, spoken |-> text, res |-> d.res]),
               !.drains = @ \cup {[d EXCEPT !.pc = "speak", !.proc = pid]}]

\* (mutant) the entry's completion is resolved when its process is launched
speakOneResolveAtLaunch(s, text, d) ==
  LET reduced == IF s.repeatReductionEnabled /\ s.lastSpoken # Empty
                 THEN reduceRepetition(text, s.lastSpoken) ELSE text
      skip == s.repeatReductionEnabled /\ s.lastSpoken # Empty /\ reduced = Empty
      pid == FreshPid(s.sayProcs)
  IN IF skip
     THEN [s EXCEPT !.lastSpoken = text,
                    !.drains = @ \cup {[d EXCEPT !.pc = "speakNow", !.proc = NoProcess]},
                    !.microtasks = Append(@, d.gen)]
     ELSE [Resolve(s, d.res) EXCEPT
                    !.lastSpoken = text,
                    !.sayProcs = @ \cup {[id |-> pid, killed |-> FALSE]},
                    !.activeProcess = pid,
                    !.launched = Append(@, [text |-> text, spoken |-> reduced, res |-> d.res]),
                    !.rates = Append(@, calculateRate(s, reduced)),
                    !.drains = @ \cup {[d EXCEPT !.pc = "speak", !.proc = pid]}]

\* say.ts 155-212.  d is the calling drain; the promise it awaits is settled by
\* the process's exit or error event, or at once for a skipped duplicate.
speakOne(s, text, d) ==
  LET reduced == IF s.repeatReductionEnabled /\ s.lastSpoken # Empty
                 THEN reduceRepetition(text, s.lastSpoken) ELSE text
      skip == s.repeatReductionEnabled /\ s.lastSpoken # Empty /\ reduced = Empty
      pid == FreshPid(s.sayProcs)
  IN IF skip
     THEN [s EXCEPT !.lastSpoken = text,
                    !.drains = @ \cup {[d EXCEPT !.pc = "speakNow", !.proc = NoProcess]},
                    !.microtasks = Append(@, d.gen)]
     ELSE [s EXCEPT !.lastSpoken = text,
                    !.sayProcs = @ \cup {[id |-> pid, killed |-> FALSE]},
                    !.activeProcess = pid,
                    !.launched = Append(@, [text |-> text, spoken |-> reduced, res |-> d.res]),
                    !.rates = Append(@, calculateRate(s, reduced)),
                    !.drains = @ \cup {[d EXCEPT !.pc = "speak", !.proc = pid]}]

\* (mutant) the gap is opened whatever the duration and the subscribers
waitForGapAlways(s, d) ==
  [emitGapStart(s) EXCEPT !.gapCompletionResolver = d.gen,
                          !.drains = @ \cup {[d EXCEPT !.pc = "gap", !.proc = NoProcess]}]

\* say.ts 218-231, up to its await
waitForGap(s, d) ==
  IF s.gapDuration <= 0 \/ Len(s.gapStartListeners) = 0
  THEN [s EXCEPT !.drains = @ \cup {[d EXCEPT !.pc = "gapNow", !.proc = NoProcess]},
                 !.microtasks = Append(@, d.gen)]
  ELSE [emitGapStart(s) EXCEPT !.gapCompletionResolver = d.gen,
                               !.drains = @ \cup {[d EXCEPT !.pc = "gap", !.proc = NoProcess]}]

\* (mutant) the cleanup runs whatever the generation
drainFinallyUnchecked(s, gen) ==
  emitFinish([s EXCEPT !.speaking = FALSE, !.processingQueue = FALSE])

\* say.ts 307-315
drainFinally(s, gen) ==
  IF s.queueGeneration = gen
  THEN emitFinish([s EXCEPT !.speaking = FALSE, !.processingQueue = FALSE])
  ELSE s

\* say.ts 257-264
clearQueue(s) ==
  [ResolveAll(s, s.speechQueue) EXCEPT !.speechQueue = <<>>, !.latestEntry = <<>>]

\* (mutant) the pending interrupt is serviced without clearing the queue
drainLoopNoClear(s, gen) ==
  IF s.speechQueue = <<>> /\ s.pendingInterrupt = <<>> THEN drainFinally(s, gen)
  ELSE IF s.queueGeneration # gen THEN drainFinally(s, gen)
  ELSE IF s.pendingInterrupt # <<>>
  THEN LET entry == s.pendingInterrupt[1]
           s1 == [s EXCEPT !.pendingInterrupt = <<>>]
       IN speakOne(s1, entry.text, [gen |-> gen, pc |-> "speak", proc |-> NoProcess, res |-> entry.res])
  ELSE LET entry == Head(s.speechQueue)
           s1 == [s EXCEPT !.speechQueue = Tail(@),
                           !.latestEntry = IF @ # <<>> /\ @[1].eid = entry.eid THEN <<>> ELSE @]
       IN speakOne(s1, entry.text, [gen |-> gen, pc |-> "speak", proc |-> NoProcess, res |-> entry.res])

\* (mutant) the latest slot is not cleared when its entry is taken
drainLoopKeepLatest(s, gen) ==
  IF s.speechQueue = <<>> /\ s.pendingInterrupt = <<>> THEN drainFinally(s, gen)
  ELSE IF s.queueGeneration # gen THEN drainFinally(s, gen)
  ELSE IF s.pendingInterrupt # <<>>
  THEN LET entry == s.pendingInterrupt[1]
           s1 == [s EXCEPT !.pendingInterrupt = <<>>]
           s2 == IF entry.clear THEN clearQueue(s1) ELSE s1
       IN speakOne(s2, entry.text, [gen |-> gen, pc |-> "speak", proc |-> NoProcess, res |-> entry.res])
  ELSE LET entry == Head(s.speechQueue)
           s1 == [s EXCEPT !.speechQueue = Tail(@)]
       IN speakOne(s1, entry.text, [gen |-> gen, pc |-> "speak", proc |-> NoProcess, res |-> entry.res])

\* say.ts 247-290: one pass of the loop, from its condition to the await of speakOne
drainLoop(s, gen) ==
  IF s.speechQueue = <<>> /\ s.pendingInterrupt = <<>> THEN drainFinally(s, gen)
  ELSE IF s.queueGeneration # gen THEN drainFinally(s, gen)
  ELSE IF s.pendingInterrupt # <<>>
  THEN LET entry == s.pendingInterrupt[1]
           s1 == [s EXCEPT !.pendingInterrupt = <<>>]
           s2 == IF entry.clear THEN clearQueue(s1) ELSE s1
       IN speakOne(s2, entry.text, [gen |-> gen, pc |-> "speak", proc |-> NoProcess, res |-> entry.res])
  ELSE LET entry == Head(s.speechQueue)
           s1 == [s EXCEPT !.speechQueue = Tail(@),
                           !.latestEntry = IF @ # <<>> /\ @[1].eid = entry.eid THEN <<>> ELSE @]
       IN speakOne(s1, entry.text, [gen |-> gen, pc |-> "speak", proc |-> NoProcess, res |-> entry.res])

\* (mutant) a gap is opened after every serviced item, also after the last
afterSpeakGapAlways(s, d) ==
  LET s1 == Resolve(s, d.res)
  IN IF s1.queueGeneration # d.gen THEN drainFinally(s1, d.gen)
     ELSE waitForGap(s1, d)

\* (mutant) the generation is checked before the entry's completion is resolved
afterSpeakCheckFirst(s, d) ==
  IF s.queueGeneration # d.gen THEN drainFinally(s, d.gen)
  ELSE LET s1 == Resolve(s, d.res)
       IN IF s1.speechQueue # <<>> \/ s1.pendingInterrupt # <<>> THEN waitForGap(s1, d)
          ELSE drainLoop(s1, d.gen)

\* say.ts 266-281 and 291-305: from the await of speakOne to the next await
afterSpeak(s, d) ==
  LET s1 == Resolve(s, d.res)
  IN IF s1.queueGeneration # d.gen THEN drainFinally(s1, d.gen)
     ELSE IF s1.speechQueue # <<>> \/ s1.pendingInterrupt # <<>> THEN waitForGap(s1, d)
     ELSE drainLoop(s1, d.gen)

\* say.ts 276-280 and 301-305: from the await of waitForGap to the next await
afterGap(s, d) ==
  IF s.queueGeneration # d.gen THEN drainFinally(s, d.gen) ELSE drainLoop(s, d.gen)

\* say.ts 239-246
processQueue(s) ==
  IF s.processingQueue THEN s
  ELSE LET s1 == [s EXCEPT !.processingQueue = TRUE, !.speaking = TRUE,
                           !.queueGeneration = @ + 1]
       IN drainLoop(emitStart(s1), s1.queueGeneration)


\* --------------------------------------------------------- say.ts: say()
Options == [interrupt : BOOLEAN, clear : BOOLEAN, rude : BOOLEAN, latest : BOOLEAN]
NoOptions == [interrupt |-> FALSE, clear |-> FALSE, rude |-> FALSE, latest |-> FALSE]

\* (mutant) no self-healing
selfHealNever(s) == s

\* say.ts 335-341
selfHeal(s) ==
  IF s.processingQueue /\ s.speechQueue = <<>> /\ s.pendingInterrupt = <<>>
     /\ s.activeProcess = NoProcess
  THEN [s EXCEPT !.processingQueue = FALSE, !.speaking = FALSE]
  ELSE s

\* gapCompletionResolver(): settles the race of the gap it belongs to
settleGap(s) ==
  IF \E d \in s.drains : d.pc = "gap" /\ d.gen = s.gapCompletionResolver
  THEN [s EXCEPT !.drains = {IF d.pc = "gap" /\ d.gen = s.gapCompletionResolver
                             THEN [d EXCEPT !.pc = "gapSignaled"] ELSE d : d \in @},
                 !.microtasks = Append(@, s.gapCompletionResolver)]
  ELSE s

\* (mutant) the process is killed and its handle kept
killActiveKeepHandle(s) ==
  IF s.activeProcess # NoProcess
  THEN [s EXCEPT !.sayProcs = MarkKilled(@, s.activeProcess)]
  ELSE s

\* utilities.ts 51-76 on the active output process, then activeProcess = undefined
killActive(s) ==
  IF s.activeProcess # NoProcess
  THEN [s EXCEPT !.sayProcs = MarkKilled(@, s.activeProcess), !.activeProcess = NoProcess]
  ELSE s

resolvePending(s) ==
  IF s.pendingInterrupt # <<>>
  THEN [Resolve(s, s.pendingInterrupt[1].res) EXCEPT !.pendingInterrupt = <<>>]
  ELSE s

\* (mutant) halt that leaves the pending interrupt alone
sayHaltKeepPending(s) ==
  LET s1 == [s EXCEPT !.queueGeneration = @ + 1]
      s2 == IF s1.gapCompletionResolver # NoResolver
            THEN [settleGap(s1) EXCEPT !.gapCompletionResolver = NoResolver] ELSE s1
      s4 == killActive(clearQueue(s2))
  IN IF s4.speaking
     THEN emitFinish([s4 EXCEPT !.speaking = FALSE, !.processingQueue = FALSE])
     ELSE s4

\* (mutant) halt emits speech-finished whether or not speech was on
sayHaltEmitAlways(s) ==
  LET s1 == [s EXCEPT !.queueGeneration = @ + 1]
      s2 == IF s1.gapCompletionResolver # NoResolver
            THEN [settleGap(s1) EXCEPT !.gapCompletionResolver = NoResolver] ELSE s1
      s3 == clearQueue(s2)
      s4 == killActive(resolvePending(s3))
  IN emitFinish([s4 EXCEPT !.speaking = FALSE, !.processingQueue = FALSE])

\* say.ts 344-374
sayHalt(s) ==
  LET s1 == [s EXCEPT !.queueGeneration = @ + 1]
      s2 == IF s1.gapCompletionResolver # NoResolver
            THEN [settleGap(s1) EXCEPT !.gapCompletionResolver = NoResolver] ELSE s1
      s3 == clearQueue(s2)
      s4 == killActive(resolvePending(s3))
  IN IF s4.speaking
     THEN emitFinish([s4 EXCEPT !.speaking = FALSE, !.processingQueue = FALSE])
     ELSE s4

\* Array.prototype.indexOf / splice on the queue, by entry identity
RemoveEntry(q, eid) == SelectSeq(q, LAMBDA e : e.eid # eid)
HasEntry(q, eid) == \E i \in 1..Len(q) : q[i].eid = eid
InsertAt(q, i, e) == SubSeq(q, 1, i - 1) \o <<e>> \o SubSeq(q, i, Len(q))

\* (mutant) a rude interrupt that leaves the pending polite interrupt alone
sayRudeKeepPending(s, text, o, id) ==
  LET interruptedText == IF s.activeProcess # NoProcess /\ s.lastSpoken # Empty
                         THEN s.lastSpoken ELSE Empty
      s1 == IF o.clear THEN clearQueue(s) ELSE s
      s2 == killActive(s1)
      s3 == [s2 EXCEPT !.speaking = FALSE, !.processingQueue = FALSE]
      entry == [eid |-> id, text |-> text, res |-> id]
      s4 == IF o.latest
            THEN LET old == s3.latestEntry
                     s3a == IF old # <<>> /\ HasEntry(s3.speechQueue, old[1].eid)
                            THEN [Resolve(s3, old[1].res) EXCEPT
                                    !.speechQueue = RemoveEntry(@, old[1].eid)]
                            ELSE s3
                 IN [s3a EXCEPT !.latestEntry = <<entry>>]
            ELSE s3
      s5 == [s4 EXCEPT !.speechQueue = <<entry>> \o @]
      s6 == IF interruptedText # Empty
            THEN [s5 EXCEPT !.speechQueue =
                    InsertAt(@, 2, [eid |-> 0 - id, text |-> interruptedText, res |-> 0])]
            ELSE s5
  IN processQueue(s6)

\* (mutant) a rude interrupt that always clears the queue
sayRudeClearAlways(s, text, o, id) ==
  LET interruptedText == IF s.activeProcess # NoProcess /\ s.lastSpoken # Empty
                         THEN s.lastSpoken ELSE Empty
      s2 == killActive(resolvePending(clearQueue(s)))
      s3 == [s2 EXCEPT !.speaking = FALSE, !.processingQueue = FALSE]
      entry == [eid |-> id, text |-> text, res |-> id]
      s4 == IF o.latest THEN [s3 EXCEPT !.latestEntry = <<entry>>] ELSE s3
      s5 == [s4 EXCEPT !.speechQueue = <<entry>> \o @]
      s6 == IF interruptedText # Empty
            THEN [s5 EXCEPT !.speechQueue =
                    InsertAt(@, 2, [eid |-> 0 - id, text |-> interruptedText, res |-> 0])]
            ELSE s5
  IN processQueue(s6)

\* say.ts 380-432
sayRude(s, text, o, id) ==
  LET interruptedText == IF s.activeProcess # NoProcess /\ s.lastSpoken # Empty
                         THEN s.lastSpoken ELSE Empty
      s1 == IF o.clear THEN clearQueue(s) ELSE s
      s2 == killActive(resolvePending(s1))
      s3 == [s2 EXCEPT !.speaking = FALSE, !.processingQueue = FALSE]
      entry == [eid |-> id, text |-> text, res |-> id]
      s4 == IF o.latest
            THEN LET old == s3.latestEntry
                     s3a == IF old # <<>> /\ HasEntry(s3.speechQueue, old[1].eid)
                            THEN [Resolve(s3, old[1].res) EXCEPT
                                    !.speechQueue = RemoveEntry(@, old[1].eid)]
                            ELSE s3
                 IN [s3a EXCEPT !.latestEntry = <<entry>>]
            ELSE s3
      s5 == [s4 EXCEPT !.speechQueue = <<entry>> \o @]
      s6 == IF interruptedText # Empty
            THEN [s5 EXCEPT !.speechQueue =
                    InsertAt(@, 2, [eid |-> 0 - id, text |-> interruptedText, res |-> 0])]
            ELSE s5
  IN processQueue(s6)

\* (mutant) a polite interrupt that replaces the pending one without resolving it
sayPoliteDropOld(s, text, o, id) ==
  LET s2 == [s EXCEPT !.pendingInterrupt = <<[text |-> text, res |-> id, clear |-> o.clear]>>]
  IN IF ~s2.processingQueue THEN processQueue(s2) ELSE s2

\* say.ts 434-445
sayPolite(s, text, o, id) ==
  LET s1 == IF s.pendingInterrupt # <<>> THEN Resolve(s, s.pendingInterrupt[1].res) ELSE s
      s2 == [s1 EXCEPT !.pendingInterrupt = <<[text |-> text, res |-> id, clear |-> o.clear]>>]
  IN IF ~s2.processingQueue THEN processQueue(s2) ELSE s2

\* (mutant) a latest call always appends a new entry
sayLatestAppend(s, text, id) ==
  LET entry == [eid |-> id, text |-> text, res |-> id]
  IN processQueue([s EXCEPT !.latestEntry = <<entry>>, !.speechQueue = Append(@, entry)])

\* say.ts 449-470
sayLatest(s, text, id) ==
  IF s.latestEntry # <<>>
  THEN LET old == s.latestEntry[1]
           new == [old EXCEPT !.text = text, !.res = id]
           s1 == [Resolve(s, old.res) EXCEPT
                    !.latestEntry = <<new>>,
                    !.speechQueue = [i \in 1..Len(@) |->
                                       IF @[i].eid = old.eid THEN new ELSE @[i]]]
       IN IF ~s1.processingQueue THEN processQueue(s1) ELSE s1
  ELSE LET entry == [eid |-> id, text |-> text, res |-> id]
       IN processQueue([s EXCEPT !.latestEntry = <<entry>>,
                                 !.speechQueue = Append(@, entry)])

\* (mutant) the new entry is put at the front of the queue
sayNormalUnshift(s, text, id) ==
  processQueue([s EXCEPT !.speechQueue = <<[eid |-> id, text |-> text, res |-> id]>> \o @])

\* say.ts 473-476
sayNormal(s, text, id) ==
  processQueue([s EXCEPT !.speechQueue = Append(@, [eid |-> id, text |-> text, res |-> id])])

\* say.ts 329-477 for a non-empty text
say(s, text, o, id) ==
  LET s1 == selfHeal(s)
  IN IF o.rude \/ o.clear \/ o.interrupt
     THEN IF o.rude THEN sayRude(s1, text, o, id) ELSE sayPolite(s1, text, o, id)
     ELSE IF o.latest THEN sayLatest(s1, text, id)
     ELSE sayNormal(s1, text, id)

\* (mutant) the empty text is not tested for
sayTextUnguarded(s, text, o, id) == say(s, text, o, id)

\* say.ts 329-477 for a text: the empty string returns at once (331-333)
sayText(s, text, o, id) == IF text = Empty THEN s ELSE say(s, text, o, id)

OpName(o) ==
  IF o.rude THEN "rude" ELSE IF o.clear \/ o.interrupt THEN "polite"
  ELSE IF o.latest THEN "latest" ELSE "say"

\* ---------------------------------------------------------------- actions
\* loopback.ts 100: the reaction of say(text).then is queued and has not run
LoopThenPending == loop.called /\ ~loop.ttsFinished /\ loop.res \in Range(resolved)

\* A continuation in the microtask queue runs before any timer or process event.
MicrotaskPending == microtasks # <<>> \/ LoopThenPending

NoCall == [name |-> "none", text |-> Empty, mark |-> 0, interrupted |-> Empty]

\* What the environment notes of a call when it makes it.
Called(name, text) ==
  [State(name) EXCEPT
     !.nCalls = IF name = "halt" THEN @ ELSE @ + 1,
     !.nHalts = IF name = "halt" THEN @ + 1 ELSE @,
     !.lastCall = [name |-> name, text |-> text, mark |-> Len(launched),
                   interrupted |-> IF activeProcess # NoProcess THEN lastSpoken ELSE Empty]]

Say(text, o) ==
  /\ text # Empty
  /\ Becomes(say(Called(OpName(o), text), text, o, nCalls + 1))

\* say(false): say.ts 335-374
Halt ==
  /\ TRUE
  /\ Becomes(sayHalt(selfHeal(Called("halt", Empty))))

\* say(''): say.ts 331-333
SayEmptyWith(o) == Becomes(sayText(State("sayEmpty"), Empty, o, nCalls + 1))
SayEmpty == SayEmptyWith(NoOptions)

\* The exit (or error) event of an output process: say.ts 194-210, then the
\* continuation of the drain that awaits it.
ProcExit(p) ==
  /\ ~MicrotaskPending
  /\ p \in sayProcs
  /\ LET s0 == State("exit")
         d == CHOOSE d \in drains : d.pc = "speak" /\ d.proc = p.id
         s1 == [s0 EXCEPT !.sayProcs = @ \ {p},
                          !.activeProcess = IF @ = p.id THEN NoProcess ELSE @,
                          !.drains = @ \ {d}]
     IN Becomes(afterSpeak(s1, d))

\* The gap timer of say.ts 224 fires (timers of one duration fire in the order set);
\* waitForGap continues with emitGapEnd, then the drain continues.
GapTimer(d) ==
  /\ ~MicrotaskPending
  /\ d \in drains /\ d.pc = "gap"
  /\ \A e \in drains : e.pc = "gap" => d.gen <= e.gen
  /\ LET s0 == State("gapTimer")
     IN Becomes(afterGap(emitGapEnd([s0 EXCEPT !.drains = @ \ {d}]), d))

\* say.ts 569-574
SignalGapSpeechComplete ==
  LET s0 == State("signal")
  IN Becomes(IF s0.gapCompletionResolver # NoResolver
             THEN [settleGap(s0) EXCEPT !.gapCompletionResolver = NoResolver]
             ELSE s0)

\* The first continuation of the microtask queue runs.  A signalled gap takes
\* three: the reaction of Promise.race (say.ts 222), the rest of waitForGap
\* (say.ts 230), and the drain's own continuation.
requeue(s, d, pc) ==
  [s EXCEPT !.drains = @ \cup {[d EXCEPT !.pc = pc]}, !.microtasks = Append(@, d.gen)]

DrainResume(d) ==
  /\ microtasks # <<>> /\ d \in drains /\ d.gen = Head(microtasks)
  /\ LET s0 == [State("resume") EXCEPT !.drains = @ \ {d}, !.microtasks = Tail(@)]
     IN Becomes(CASE d.pc = "speakNow" -> afterSpeak(s0, d)
                  [] d.pc = "gapNow" -> afterGap(s0, d)
                  [] d.pc = "gapEnd" -> requeue(emitGapEnd(s0), d, "gapNow")
                  [] d.pc = "gapSignaled" -> requeue(s0, d, "gapEnd"))

\* say.ts 580-582
SetGapDuration(ms) == gapDuration # ms /\ Becomes([State("setGapDuration") EXCEPT !.gapDuration = ms])

\* say.ts 541-549
OnSayGapStart(l) ==
  /\ Len(handles) < MaxListeners
  /\ Becomes([State("onSayGapStart") EXCEPT
                !.gapStartListeners = Append(@, l),
                !.handles = Append(@, [listener |-> l, calls |-> 0])])

\* say.ts 543-548: the k-th handle that onSayGapStart returned is called
UnregisterGapStart(k) ==
  /\ k \in 1..Len(handles)
  /\ handles[k].calls < MaxHandleCalls
  /\ Becomes([State("unregister") EXCEPT
                !.gapStartListeners = RemoveFirst(@, handles[k].listener),
                !.handles[k].calls = @ + 1])

\* say.ts 589-591
SetRepeatReduction(b) ==
  /\ repeatReductionEnabled # b
  /\ Becomes([State("setRepeatReduction") EXCEPT !.repeatReductionEnabled = b])

\* loopback.ts 22-34: no loopback() call has been made.  called and text, res
\* (the completion of its say(text)), the state of hearProcess, produced (the
\* complete lines hearProcess has written) and results (the values passed to
\* resolve, each with the handler that passed it) are the environment's
\* view; the other fields are the variables of the closure.
NoLoopback ==
  [called |-> FALSE, text |-> Empty, res |-> 0, hearProcess |-> "none",
   lastTranscribedText |-> Empty, silenceTimer |-> FALSE, ttsFinished |-> FALSE,
   resolved |-> FALSE, lineBuffer |-> Empty, produced |-> <<>>, results |-> <<>>]

\* The state when the modules have loaded, for the environment e.
InitEnv(e) ==
  /\ env = e
  /\ rates = <<>>
  /\ speechQueue = <<>>
  /\ latestEntry = <<>>
  /\ pendingInterrupt = <<>>
  /\ activeProcess = NoProcess
  /\ lastSpoken = Empty
  /\ speaking = FALSE
  /\ processingQueue = FALSE
  /\ repeatReductionEnabled = TRUE
  /\ gapDuration = DefaultGapMs
  /\ gapStartListeners = <<>>
  /\ muteListeners = <<>>
  /\ handles = <<>>
  /\ loop = NoLoopback
  /\ invoked = <<>>
  /\ thrown = FALSE
  /\ gapCompletionResolver = NoResolver
  /\ queueGeneration = 0
  /\ drains = {}
  /\ microtasks = <<>>
  /\ sayProcs = {}
  /\ hearActiveProcess = NoProcess
  /\ currentCallback = 0
  /\ silenceTimer = FALSE
  /\ lastLine = Empty
  /\ timeoutDuration = DefaultTimeoutMs
  /\ shouldRestart = FALSE
  /\ hearProcs = {}
  /\ hearMuted = FALSE
  /\ nCalls = 0
  /\ nHalts = 0
  /\ lastCall = NoCall
  /\ nHear = 0
  /\ nData = 0
  /\ launched = <<>>
  /\ resolved = <<>>
  /\ emitted = <<>>
  /\ heard = <<>>
  /\ speechOn = FALSE
  /\ gapOn = FALSE
  /\ op = "init"

\* No variable of say.ts 55-57 is set: the rates and the plateau are the defaults.
NoEnv == [MIN_RATE |-> 0, MAX_RATE |-> 0, WORD_QUEUE_PLATEAU |-> 0]

Init == InitEnv(NoEnv)

SayNext ==
  \/ nCalls + nHalts < MaxCalls /\ \E text \in Texts, o \in Options : Say(text, o)
  \/ nCalls + nHalts < MaxCalls /\ Halt
  \/ SayEmpty
  \/ \E p \in sayProcs : ProcExit(p)
  \/ \E d \in drains : GapTimer(d)
  \/ SignalGapSpeechComplete
  \/ \E d \in drains : DrainResume(d)
  \/ handles = <<>> /\ OnSayGapStart("u1")

SaySpec == Init /\ [][SayNext]_vars


\* ------------------------------------------------------ hear.ts: actions
\* (mutant) the handler is given the line as received, unfiltered
onSilenceRaw(s, callsStop) ==
  IF s.lastLine = Empty \/ s.currentCallback = 0
  THEN IF s.currentCallback # 0 /\ s.hearActiveProcess # NoProcess
       THEN resetSilenceTimer(s) ELSE s
  ELSE LET s1 == [s EXCEPT !.lastLine = Empty]
           s2 == IF s1.shouldRestart /\ s1.hearActiveProcess # NoProcess
                 THEN [s1 EXCEPT !.hearProcs = MarkKilled(@, s1.hearActiveProcess)]
                 ELSE s1
           s3 == [s2 EXCEPT !.heard = Append(@, [cb |-> s.currentCallback, text |-> s.lastLine])]
       IN IF callsStop THEN cleanup([s3 EXCEPT !.shouldRestart = FALSE]) ELSE s3

\* hear.ts 160-196.  callsStop: whether the handler calls the stop function it is given.
onSilence(s, callsStop) ==
  IF s.lastLine = Empty \/ s.currentCallback = 0
  THEN IF s.currentCallback # 0 /\ s.hearActiveProcess # NoProcess
       THEN resetSilenceTimer(s) ELSE s
  ELSE LET text == filterSpokenText(s.lastLine, s.lastSpoken)
           callback == s.currentCallback
           s1 == [s EXCEPT !.lastLine = Empty]
           s2 == IF s1.shouldRestart /\ s1.hearActiveProcess # NoProcess
                 THEN [s1 EXCEPT !.hearProcs = MarkKilled(@, s1.hearActiveProcess)]
                 ELSE s1
           s3 == [s2 EXCEPT !.heard = Append(@, [cb |-> callback, text |-> text])]
       IN IF Trim(text) = Empty THEN s
          ELSE IF callsStop THEN cleanup([s3 EXCEPT !.shouldRestart = FALSE])
          ELSE s3

\* The silence timer of hear.ts 155-157 fires.
SilenceTimeout(callsStop) ==
  /\ ~MicrotaskPending
  /\ silenceTimer
  /\ Becomes(onSilence([State("silence") EXCEPT !.silenceTimer = FALSE], callsStop))

\* (mutant) a call with a handler always starts a fresh listening session
HearRestart(cb, timeoutMs) ==
  /\ nHear < MaxHearCalls
  /\ LET s0 == [State("hear") EXCEPT !.nHear = @ + 1]
         s1 == [s0 EXCEPT !.timeoutDuration = timeoutMs, !.currentCallback = cb]
     IN Becomes(IF s1.speaking THEN s1 ELSE startListening(s1))

\* hear.ts 248-282 with a handler
Hear(cb, timeoutMs) ==
  /\ nHear < MaxHearCalls
  /\ LET s0 == [State("hear") EXCEPT !.nHear = @ + 1]
         timeoutChanged == s0.timeoutDuration # timeoutMs
         s1 == [s0 EXCEPT !.timeoutDuration = timeoutMs, !.currentCallback = cb]
     IN Becomes(IF s1.hearActiveProcess # NoProcess
                THEN IF timeoutChanged THEN resetSilenceTimer(s1) ELSE s1
                ELSE IF s1.speaking THEN s1
                ELSE startListening(s1))

\* hear(false): hear.ts 255-258
HearStop ==
  /\ nHear < MaxHearCalls
  /\ Becomes(cleanup([State("hearStop") EXCEPT !.nHear = @ + 1]))

\* hear.ts 226-231 over the complete lines of a chunk
RECURSIVE takeLines(_, _)
takeLines(s, lines) ==
  IF lines = <<>> THEN s
  ELSE takeLines(IF Trim(Head(lines)) # Empty
                 THEN resetSilenceTimer([s EXCEPT !.lastLine = Head(lines)])
                 ELSE s,
                 Tail(lines))

\* A chunk arrives on the stdout of an input process that has not exited,
\* whether or not the coordinator still holds it: hear.ts 218-232.
HearData(p, chunk) ==
  /\ ~MicrotaskPending
  /\ p \in hearProcs
  /\ nData < MaxData
  /\ LET s0 == [State("data") EXCEPT !.nData = @ + 1]
         lines == SplitLines(p.lineBuffer \o chunk, Empty, <<>>)
         rest == lines[Len(lines)]
         s1 == [s0 EXCEPT !.hearProcs = (@ \ {p}) \cup {[p EXCEPT !.lineBuffer = rest]}]
     IN Becomes(takeLines(s1, SubSeq(lines, 1, Len(lines) - 1)))

\* The exit event of an input process: hear.ts 234-242.
HearExit(p) ==
  /\ ~MicrotaskPending
  /\ p \in hearProcs
  /\ LET s0 == [State("hearExit") EXCEPT !.hearProcs = @ \ {p}]
         s1 == clearSilenceTimer([s0 EXCEPT !.hearActiveProcess = NoProcess])
     IN Becomes(IF s1.shouldRestart /\ s1.currentCallback # 0
                THEN startListening(s1) ELSE s1)

Chunks == { <<"a", Newline>>, <<"b">>, <<Newline>>, <<" ", Newline>> }

HearNext ==
  \/ \E ms \in {DefaultTimeoutMs, OtherTimeoutMs} : Hear(nHear + 1, ms)
  \/ HearStop
  \/ \E p \in hearProcs, chunk \in Chunks : HearData(p, chunk)
  \/ \E p \in hearProcs : HearExit(p)
  \/ \E callsStop \in BOOLEAN : SilenceTimeout(callsStop)

\* onMuteChange(listener): part_000 34-36, 104-105
OnMuteChange(l) ==
  /\ Len(muteListeners) < MaxListeners
  /\ Becomes([State("onMuteChange") EXCEPT !.muteListeners = Append(@, l)])

\* setHearMuted(enabled): part_000 42-45.  The registry is created without an
\* onError option (part_000 28), so its emit calls the listeners unguarded
\* (part_000 114-126).
SetHearMuted(enabled) ==
  LET s0 == [State("setHearMuted") EXCEPT !.hearMuted = enabled]
  IN Becomes(Notify(s0, "muteListeners", FALSE))

\* Listening with the mute flag set and cleared between its events.
MuteNext ==
  \/ HearNext
  \/ \E enabled \in BOOLEAN : SetHearMuted(enabled)

MuteSpec == Init /\ [][MuteNext]_vars

\* The calls of say() the whole system is checked with.
SystemSayNext ==
  \/ nCalls + nHalts < MaxSysCalls
     /\ \E o \in {NoOptions, [NoOptions EXCEPT !.rude = TRUE]} : Say(TextA, o)
  \/ nCalls + nHalts < MaxSysCalls /\ Halt
  \/ \E p \in sayProcs : ProcExit(p)
  \/ \E d \in drains : DrainResume(d)

Next == SystemSayNext \/ HearNext

Spec == Init /\ [][Next]_vars


\* ------------------------------------------------- further specifications
\* Calls of say(text) with no options only, and no halt.
FifoNext ==
  \/ nCalls < MaxCalls /\ \E text \in Texts : Say(text, NoOptions)
  \/ \E p \in sayProcs : ProcExit(p)
  \/ \E d \in drains : GapTimer(d)
  \/ SignalGapSpeechComplete
  \/ \E d \in drains : DrainResume(d)
  \/ handles = <<>> /\ OnSayGapStart("u1")

FifoSpec == Init /\ [][FifoNext]_vars

\* The engine with every spawned process eventually exiting, every gap timer
\* eventually firing and every queued continuation eventually running: weak
\* fairness of the three events, with ENABLED written out as the event's guard
\* (an event is a guard and a total update that changes drains or sayProcs).
ExitEnabled == microtasks = <<>> /\ sayProcs # {}
GapTimerEnabled == microtasks = <<>> /\ \E d \in drains : d.pc = "gap"
ResumeEnabled == microtasks # <<>>

SayFairSpec ==
  /\ SaySpec
  /\ ([]<>(~ExitEnabled) \/ []<><<\E p \in sayProcs : ProcExit(p)>>_vars)
  /\ ([]<>(~GapTimerEnabled) \/ []<><<\E d \in drains : GapTimer(d)>>_vars)
  /\ ([]<>(~ResumeEnabled) \/ []<><<\E d \in drains : DrainResume(d)>>_vars)


\* The engine's branches, one set of options for each: say.ts 377-476.
CoreOptions ==
  { NoOptions,
    [NoOptions EXCEPT !.latest = TRUE],
    [NoOptions EXCEPT !.interrupt = TRUE],
    [NoOptions EXCEPT !.clear = TRUE],
    [NoOptions EXCEPT !.rude = TRUE],
    [NoOptions EXCEPT !.rude = TRUE, !.clear = TRUE] }

CoreNext ==
  \/ nCalls + nHalts < MaxCalls /\ \E text \in {TextA, TextB}, o \in CoreOptions : Say(text, o)
  \/ nCalls + nHalts < MaxCalls /\ Halt
  \/ \E p \in sayProcs : ProcExit(p)
  \/ \E d \in drains : GapTimer(d)
  \/ SignalGapSpeechComplete
  \/ \E d \in drains : DrainResume(d)
  \/ handles = <<>> /\ OnSayGapStart("u1")

\* The engine called through each of its branches, with every spawned process
\* eventually exiting, every gap timer eventually firing and every queued
\* continuation eventually running (weak fairness of the three events, as in
\* SayFairSpec).
CoreFairSpec ==
  /\ Init /\ [][CoreNext]_vars
  /\ ([]<>(~ExitEnabled) \/ []<><<\E p \in sayProcs : ProcExit(p)>>_vars)
  /\ ([]<>(~GapTimerEnabled) \/ []<><<\E d \in drains : GapTimer(d)>>_vars)
  /\ ([]<>(~ResumeEnabled) \/ []<><<\E d \in drains : DrainResume(d)>>_vars)

\* The engine called through each of its branches and with the empty text.
CoreSpec == Init /\ [][CoreNext \/ \E o \in Options : SayEmptyWith(o)]_vars

\* Listening with plain speech around it: hear.ts with say(text) calls without
\* options, the exits of their processes and the drains' continuations.
HearSayNext ==
  \/ nCalls < MaxSysCalls /\ Say(TextA, NoOptions)
  \/ \E p \in sayProcs : ProcExit(p)
  \/ \E d \in drains : DrainResume(d)

HearSpec == Init /\ [][HearSayNext \/ HearNext]_vars

\* Texts of one to three words over the words a, b, ab and ba, for the
\* repetition reduction of say.ts 77-125.
ReduceWords == { <<"a">>, <<"b">>, <<"a", "b">>, <<"b", "a">> }
ReduceTexts ==
  ReduceWords
  \cup { v \o <<" ">> \o w : v, w \in ReduceWords }
  \cup { <<u, " ", v, " ", w>> : u, v, w \in WordChars }

\* Calls of say(text) without options over those texts, with the repetition
\* reduction switched on and off, and no gap listener (waitForGap returns at once).
ReduceNext ==
  \/ nCalls < MaxReduceCalls /\ \E text \in ReduceTexts : Say(text, NoOptions)
  \/ \E p \in sayProcs : ProcExit(p)
  \/ \E d \in drains : DrainResume(d)
  \/ \E b \in BOOLEAN : SetRepeatReduction(b)

ReduceSpec == Init /\ [][ReduceNext]_vars

\* Calls of say(text) without options as in FifoSpec, with the repetition
\* reduction switched on and off between them.
RepeatNext ==
  \/ FifoNext
  \/ \E b \in BOOLEAN : SetRepeatReduction(b)

RepeatSpec == Init /\ [][RepeatNext]_vars

\* The gap settings: say.ts 580-582 with a positive, a zero and a negative duration.
GapDurations == {DefaultGapMs, 0, 0 - 1}

\* Plain and polite calls and halt, with the gap duration set and the
\* gap-started subscriber registered and then unregistered between the events.
GapOptions == { NoOptions, [NoOptions EXCEPT !.interrupt = TRUE] }

GapNext ==
  \/ nCalls + nHalts < MaxCalls /\ \E text \in {TextA, TextB}, o \in GapOptions : Say(text, o)
  \/ nCalls + nHalts < MaxCalls /\ Halt
  \/ \E p \in sayProcs : ProcExit(p)
  \/ \E d \in drains : GapTimer(d)
  \/ SignalGapSpeechComplete
  \/ \E d \in drains : DrainResume(d)
  \/ handles = <<>> /\ OnSayGapStart("u1")
  \/ handles # <<>> /\ handles[1].calls = 0 /\ UnregisterGapStart(1)
  \/ \E ms \in GapDurations : SetGapDuration(ms)

GapSpec == Init /\ [][GapNext]_vars

\* Texts with in-line control tags ([[a]] stands for a tag such as [[slnc 500]])
\* for the repetition reduction of say.ts 77-125.
TagOf(w) == <<"[", "[">> \o w \o <<"]", "]">>
TagTexts ==
  { TagOf(w) : w \in {<<"a">>, <<"b">>, <<"a", "b">>, <<"b", "b">>} }
  \cup { <<c, " ">> \o TagOf(<<w>>) : c, w \in WordChars }
  \cup { TagOf(<<w>>) \o <<" ", c>> : c, w \in WordChars }

\* Calls of say(text) without options over those texts.
TagNext ==
  \/ nCalls < MaxReduceCalls /\ \E text \in TagTexts : Say(text, NoOptions)
  \/ \E p \in sayProcs : ProcExit(p)
  \/ \E d \in drains : DrainResume(d)

TagSpec == Init /\ [][TagNext]_vars

\* The environments of the rate: the defaults, a plateau of two words, a
\* range of odd width (a rate that ends in a half), and a minimum above the
\* maximum.
RateEnvs ==
  { NoEnv,
    [NoEnv EXCEPT !.WORD_QUEUE_PLATEAU = 2],
    [MIN_RATE |-> 150, MAX_RATE |-> 175, WORD_QUEUE_PLATEAU |-> 2],
    [MIN_RATE |-> 300, MAX_RATE |-> 200, WORD_QUEUE_PLATEAU |-> 2] }

RateInit == \E e \in RateEnvs : InitEnv(e)

\* Calls of say(text) without options over texts of one and two words, in
\* each of those environments.
RateNext ==
  \/ nCalls < MaxCalls /\ \E text \in Texts : Say(text, NoOptions)
  \/ \E p \in sayProcs : ProcExit(p)
  \/ \E d \in drains : DrainResume(d)

RateSpec == RateInit /\ [][RateNext]_vars

\* The emissions with subscribers that throw: the mute registry with u1 and
\* x1 registered in either order, the gap-started listeners x1 and then u1,
\* and plain say(text) calls whose drains open gaps.
EmitNext ==
  \/ \E l \in {"u1", "x1"} : OnMuteChange(l)
  \/ \E enabled \in BOOLEAN : SetHearMuted(enabled)
  \/ handles = <<>> /\ OnSayGapStart("x1")
  \/ Len(handles) = 1 /\ OnSayGapStart("u1")
  \/ nCalls < MaxSysCalls /\ \E text \in {TextA, TextB} : Say(text, NoOptions)
  \/ \E p \in sayProcs : ProcExit(p)
  \/ \E d \in drains : GapTimer(d)
  \/ \E d \in drains : DrainResume(d)

EmitSpec == Init /\ [][EmitNext]_vars

\* The gap-started registrations and their unregister handles: the listeners
\* u1 and u2 registered in any order and number, each handle called at any
\* time and more than once, and plain say(text) calls whose drains open gaps.
HandleNext ==
  \/ \E l \in {"u1", "u2"} : OnSayGapStart(l)
  \/ \E k \in 1..Len(handles) : UnregisterGapStart(k)
  \/ nCalls < MaxSysCalls /\ \E text \in {TextA, TextB} : Say(text, NoOptions)
  \/ \E p \in sayProcs : ProcExit(p)
  \/ \E d \in drains : GapTimer(d)
  \/ \E d \in drains : DrainResume(d)

HandleSpec == Init /\ [][HandleNext]_vars

\* ----------------------------------------------------------- loopback.ts
\* loopback.ts 46-54
loopCleanup(s) ==
  [s EXCEPT !.loop.silenceTimer = FALSE,
            !.loop.hearProcess = IF @ = "running" THEN "killed" ELSE @]

\* loopback.ts 56-63 (onLine is not given)
loopFinish(s) ==
  IF s.loop.resolved THEN s
  ELSE LET result == s.loop.lastTranscribedText
           s1 == loopCleanup([s EXCEPT !.loop.resolved = TRUE])
       IN [s1 EXCEPT !.loop.results = Append(@, [value |-> result, by |-> "silence"])]

\* loopback.ts 65-73
loopResetSilenceTimer(s) == [s EXCEPT !.loop.silenceTimer = s.loop.ttsFinished]

\* loopback.ts 82-88 over the complete lines of a chunk
RECURSIVE loopTakeLines(_, _)
loopTakeLines(s, lines) ==
  IF lines = <<>> THEN s
  ELSE loopTakeLines(IF Trim(Head(lines)) # Empty
                     THEN loopResetSilenceTimer([s EXCEPT !.loop.lastTranscribedText = Head(lines)])
                     ELSE s,
                     Tail(lines))

\* loopback(text) with the default timeout and no onLine: loopback.ts 17-34
\* and 99-104, the spawn of hearProcess and the call of say(text).
Loopback(text) ==
  /\ ~loop.called
  /\ text # Empty
  /\ LET s0 == [Called("say", text) EXCEPT
                  !.op = "loopback",
                  !.loop = [NoLoopback EXCEPT !.called = TRUE, !.text = text,
                                              !.res = nCalls + 1, !.hearProcess = "running"]]
     IN Becomes(say(s0, text, NoOptions, nCalls + 1))

\* The reaction of say(text).then runs: loopback.ts 100-104.
LoopSayDone ==
  /\ LoopThenPending
  /\ microtasks = <<>>
  /\ Becomes([State("loopSayDone") EXCEPT !.loop.ttsFinished = TRUE,
                                           !.loop.silenceTimer = TRUE])

\* A chunk arrives on the stdout of hearProcess: loopback.ts 77-89.
LoopData(chunk) ==
  /\ ~MicrotaskPending
  /\ loop.hearProcess \in {"running", "killed"}
  /\ nData < MaxData
  /\ LET s0 == [State("loopData") EXCEPT !.nData = @ + 1]
         lines == SplitLines(s0.loop.lineBuffer \o chunk, Empty, <<>>)
         complete == SubSeq(lines, 1, Len(lines) - 1)
         s1 == [s0 EXCEPT !.loop.lineBuffer = lines[Len(lines)],
                          !.loop.produced = @ \o complete]
     IN Becomes(loopTakeLines(s1, complete))

\* The exit event of hearProcess: loopback.ts 91-97.
LoopExit ==
  /\ ~MicrotaskPending
  /\ loop.hearProcess \in {"running", "killed"}
  /\ LET s0 == [State("loopExit") EXCEPT !.loop.hearProcess = "exited"]
     IN Becomes(IF s0.loop.resolved THEN s0
                ELSE [s0 EXCEPT !.loop.resolved = TRUE,
                                !.loop.silenceTimer = FALSE,
                                !.loop.results =
                                   Append(@, [value |-> s0.loop.lastTranscribedText,
                                              by |-> "exit"])])

\* The error event of hearProcess (the spawn failed): loopback.ts 38-44.
LoopError ==
  /\ ~MicrotaskPending
  /\ loop.hearProcess = "running"
  /\ loop.produced = <<>> /\ loop.lineBuffer = Empty
  /\ LET s0 == [State("loopError") EXCEPT !.loop.hearProcess = "exited"]
     IN Becomes(IF s0.loop.resolved THEN s0
                ELSE LET s1 == sayHalt(selfHeal(loopCleanup([s0 EXCEPT !.loop.resolved = TRUE])))
                     IN [s1 EXCEPT !.loop.results = Append(@, [value |-> Empty, by |-> "error"])])

\* The silence timer of loopback.ts 71 or 103 fires.
LoopSilence ==
  /\ ~MicrotaskPending
  /\ loop.silenceTimer
  /\ Becomes(loopFinish([State("loopSilence") EXCEPT !.loop.silenceTimer = FALSE]))

\* One loopback('a') call, with another caller that says 'b', plainly or
\* rudely, or halts.
LoopNext ==
  \/ Loopback(TextA)
  \/ nCalls + nHalts < MaxSysCalls
     /\ \E o \in {NoOptions, [NoOptions EXCEPT !.rude = TRUE]} : Say(TextB, o)
  \/ nCalls + nHalts < MaxSysCalls /\ Halt
  \/ \E p \in sayProcs : ProcExit(p)
  \/ \E d \in drains : DrainResume(d)
  \/ LoopSayDone
  \/ \E chunk \in Chunks : LoopData(chunk)
  \/ LoopExit
  \/ LoopError
  \/ LoopSilence

LoopSpec == Init /\ [][LoopNext]_vars

\* Rude interrupts with and without the clear and the latest flag, among
\* plain, latest and polite calls: say.ts 380-432.
RudeOptions ==
  { NoOptions,
    [NoOptions EXCEPT !.latest = TRUE],
    [NoOptions EXCEPT !.interrupt = TRUE],
    [NoOptions EXCEPT !.rude = TRUE],
    [NoOptions EXCEPT !.rude = TRUE, !.latest = TRUE],
    [NoOptions EXCEPT !.rude = TRUE, !.clear = TRUE] }

RudeNext ==
  \/ nCalls < MaxCalls /\ \E text \in {TextA, TextB}, o \in RudeOptions : Say(text, o)
  \/ \E p \in sayProcs : ProcExit(p)
  \/ \E d \in drains : DrainResume(d)

RudeSpec == Init /\ [][RudeNext]_vars

\* The calls that set, rewrite, take or clear the latest slot: say.ts 284-289,
\* 354-361, 388-396, 412-424, 448-470, 257-264.
LatestOptions ==
  { NoOptions,
    [NoOptions EXCEPT !.latest = TRUE],
    [NoOptions EXCEPT !.rude = TRUE, !.latest = TRUE],
    [NoOptions EXCEPT !.rude = TRUE, !.clear = TRUE],
    [NoOptions EXCEPT !.clear = TRUE] }

LatestNext ==
  \/ nCalls + nHalts < MaxCalls /\ \E text \in {TextA, TextB}, o \in LatestOptions : Say(text, o)
  \/ nCalls + nHalts < MaxCalls /\ Halt
  \/ \E p \in sayProcs : ProcExit(p)
  \/ \E d \in drains : DrainResume(d)

LatestSpec == Init /\ [][LatestNext]_vars

\* The mute registry and the gap-started listeners of say.ts with listeners
\* that unregister during an emission: part_000 104-126, say.ts 139-143.
RegistryNext ==
  \/ \E l \in {"u1", "o1", "r1"} : OnMuteChange(l)
  \/ \E enabled \in BOOLEAN : SetHearMuted(enabled)
  \/ \E l \in {"u1", "o1", "r1"} : OnSayGapStart(l)
  \/ nCalls < MaxSysCalls /\ \E text \in {TextA, TextB} : Say(text, NoOptions)
  \/ \E p \in sayProcs : ProcExit(p)
  \/ \E d \in drains : GapTimer(d)
  \/ \E d \in drains : DrainResume(d)

RegistrySpec == Init /\ [][RegistryNext]_vars

\* ================================================================ claims

\* C1: with only say(text) calls without options and no halt, the output
\* processes are launched in the order of the calls and the completions
\* resolve in the order of the calls (call k's completion is the k-th to
\* resolve), whatever the interleaving of exits, gap timers and signals.
C1_CallOrder ==
  /\ \A i \in 1..Len(resolved) : resolved[i] = i
  /\ \A i, j \in 1..Len(launched) : i < j => launched[i].res < launched[j].res
C1_Witness ==
  /\ Len(resolved) >= 2
  /\ Len(launched) >= 2
  /\ nCalls >= 3
  /\ \E d \in drains : d.pc = "gap"


\* C2: when say(B, {rude: true}) is called while the output process of A is
\* active, A's process is terminated at once, B is the next text launched and A
\* is launched again directly after B, so that the interrupted text is not lost.
\* Stated on the states after the rude call and before any later call: the
\* processes that are not the active one are killed, the launch made by the
\* call is B, the launch after it is A, and the engine does not come to rest
\* before both are made.
C2_RudeThenInterrupted ==
  (lastCall.name = "rude" /\ lastCall.interrupted # Empty) =>
    /\ \A p \in sayProcs : p.id # activeProcess => p.killed
    /\ Len(launched) >= lastCall.mark + 1
    /\ launched[lastCall.mark + 1].text = lastCall.text
    /\ Len(launched) >= lastCall.mark + 2 =>
         launched[lastCall.mark + 2].text = lastCall.interrupted
    /\ (drains = {} /\ sayProcs = {}) => Len(launched) >= lastCall.mark + 2


\* C3 (as stated): of say(t1, {latest: true}) and say(t2, {latest: true}), called
\* before either is serviced, exactly one item is spoken, with text t2: when the
\* drain takes the entry that the second call replaced, it launches a process
\* for it, with text t2.
C3_LatestSpokenOnce ==
  [][(/\ op' \in {"exit", "gapTimer", "resume"}
      /\ latestEntry # <<>> /\ latestEntry' = <<>>
      /\ latestEntry[1].res # latestEntry[1].eid
      /\ latestEntry[1].res \notin Range(resolved')) =>
       /\ Len(launched') = Len(launched) + 1
       /\ launched'[Len(launched')].res = latestEntry[1].res
       /\ launched'[Len(launched')].text = latestEntry[1].text]_vars

\* C3 (amended): when say(t2, {latest: true}) is called while the entry of an
\* earlier say(t1, {latest: true}) is still queued, the first call's completion
\* resolves in that call, t1 has not been launched and is never launched
\* afterwards (no launch is ever made for a completion already resolved, nor
\* two for one completion), and the two calls leave one entry, in the first
\* call's place in the queue, with text t2 and the second call's completion.
\* When the drain takes that entry it launches one process for t2, unless
\* t2 reduces to nothing against the text spoken last, in which case nothing
\* is spoken for the two calls.
C3_LatestCollapse ==
  /\ [][(op' = "latest" /\ latestEntry # <<>>) =>
          LET old == latestEntry[1]
              new == [old EXCEPT !.text = lastCall'.text, !.res = nCalls']
          IN /\ old.res \notin Range(resolved)
             /\ resolved' = Append(resolved, old.res)
             /\ \A i \in 1..Len(launched') : launched'[i].res # old.res
             /\ launched' = launched
             /\ \E k \in 1..Len(speechQueue) :
                  /\ speechQueue[k] = old
                  /\ speechQueue' = [speechQueue EXCEPT ![k] = new]
             /\ latestEntry' = <<new>>]_vars
  /\ [][\A i \in (Len(launched) + 1)..Len(launched') :
          /\ launched'[i].res \notin Range(resolved)
          /\ \A j \in 1..Len(launched) : launched'[i].res > 0 => launched[j].res # launched'[i].res]_vars
  /\ [][(/\ op' \in {"exit", "gapTimer", "resume"}
         /\ latestEntry # <<>> /\ latestEntry' = <<>>
         /\ latestEntry[1].res # latestEntry[1].eid
         /\ latestEntry[1].res \notin Range(resolved')) =>
          LET e == latestEntry[1]
              reduced == IF repeatReductionEnabled /\ lastSpoken # Empty
                         THEN reduceRepetition(e.text, lastSpoken) ELSE e.text
          IN launched' = IF reduced = Empty THEN launched
                         ELSE Append(launched, [text |-> e.text, spoken |-> reduced, res |-> e.res])]_vars
C3_Witness ==
  /\ op = "latest"
  /\ nCalls >= 2
  /\ latestEntry # <<>> /\ latestEntry[1].res = nCalls /\ latestEntry[1].eid < nCalls
  /\ latestEntry[1].eid \in Range(resolved)
  /\ latestEntry[1] \in Range(speechQueue)
  /\ activeProcess # NoProcess


\* C4: in the state a say(false) call leaves, the queue is empty, there is no
\* pending interrupt, no active-process handle, speaking is false, and every
\* completion handed out so far is resolved (once: resolved holds no number
\* twice) or is held by a drain whose await is already settled or about to be:
\* it awaits the exit of a process that has been killed, or its continuation is
\* in the microtask queue.
C4_HaltLeavesNothing ==
  (op = "halt") =>
    /\ speechQueue = <<>>
    /\ latestEntry = <<>>
    /\ pendingInterrupt = <<>>
    /\ activeProcess = NoProcess
    /\ ~speaking /\ ~processingQueue
    /\ gapCompletionResolver = NoResolver
    /\ \A i, j \in 1..Len(resolved) : i # j => resolved[i] # resolved[j]
    /\ \A id \in {n \in 1..nCalls : n \notin Range(resolved)} :
         \E d \in drains :
           /\ d.res = id
           /\ d.gen # queueGeneration
           /\ \/ d.pc = "speakNow"
              \/ d.pc = "speak" /\ [id |-> d.proc, killed |-> TRUE] \in sayProcs
C4_Witness ==
  /\ op = "halt"
  /\ lastCall.interrupted # Empty
  /\ \E id \in 1..nCalls : id \notin Range(resolved)
  /\ Len(resolved) >= 1
  /\ \E d \in drains : d.pc = "speak"


\* C5: every completion returned by say() eventually resolves, under any
\* interleaving of normal, latest, polite, rude and halt calls, provided every
\* output process eventually exits, every gap timer eventually fires and the
\* microtask queue is run.
C5_EveryCompletionResolves ==
  \A id \in 1..MaxCalls : (nCalls >= id) ~> (id \in Range(resolved))
C5_Witness ==
  /\ nCalls = MaxCalls
  /\ \A id \in 1..MaxCalls : id \in Range(resolved)
  /\ nHalts = 0
  /\ \E i \in 1..Len(resolved) : resolved[i] > i
  /\ drains = {}


\* C6: the exit event of an input process that was stopped intentionally,
\* arriving after a newer input process has been started, starts no process,
\* keeps the handle of the newer process and leaves its silence timer alone.
C6_StaleExitIgnored ==
  [][\A p \in hearProcs :
       (/\ p.killed
        /\ hearActiveProcess # NoProcess
        /\ hearActiveProcess # p.id
        /\ HearExit(p)) =>
       /\ hearProcs' = hearProcs \ {p}
       /\ hearActiveProcess' = hearActiveProcess
       /\ silenceTimer' = silenceTimer]_vars


\* C7: in every reachable state at most one output process is alive (spawned
\* and not yet exited) and at most one input process is alive.
C7_OneProcessEach ==
  /\ Cardinality(sayProcs) <= 1
  /\ Cardinality(hearProcs) <= 1


\* C8: while a gap is open (the current drain waits in waitForGap), a call of
\* signalGapSpeechComplete() ends that gap: the race of the waiting drain is
\* settled, so that gap-ended is emitted and the drain continues without the
\* timer; and without a signal gap-ended is emitted when the timer of the open
\* gap fires and not before: a step that emits gap-ended while the current
\* drain waits in its gap takes that drain out of the wait.
C8_GapEndsBySignalOrTimer ==
  /\ [][(op' = "signal" /\ \E d \in drains : d.pc = "gap" /\ d.gen = queueGeneration) =>
          \E d \in drains' : d.pc = "gapSignaled" /\ d.gen = queueGeneration]_vars
  /\ [][(/\ \E d \in drains : d.pc = "gap" /\ d.gen = queueGeneration
         /\ "gapEnd" \in Range(emitted')) =>
          ~ \E d \in drains' : d.pc = "gap" /\ d.gen = queueGeneration]_vars


C11_DuplicateSkipped ==
  /\ [][\A d \in drains' \ drains :
          LET text == IF op' = "say" /\ d.res = nCalls' THEN lastCall'.text
                      ELSE Head(speechQueue).text
          IN (/\ d.pc \in {"speak", "speakNow"}
              /\ repeatReductionEnabled /\ lastSpoken # Empty /\ text = lastSpoken) =>
               /\ d.pc = "speakNow"
               /\ launched' = launched
               /\ sayProcs' = sayProcs
               /\ activeProcess' = activeProcess
               /\ lastSpoken' = text
               /\ microtasks' # <<>> /\ microtasks'[Len(microtasks')] = d.gen]_vars
  /\ [][\A d \in drains :
          (/\ op' = "resume" /\ d.pc = "speakNow"
           /\ microtasks # <<>> /\ Head(microtasks) = d.gen) =>
            /\ d.res \in Range(resolved')
            /\ launched' = launched
            /\ speechQueue' # <<>> => \E e \in drains' : e.gen = queueGeneration'
            /\ (speechQueue # <<>> /\ d.gen = queueGeneration) =>
                 /\ speechQueue' = speechQueue
                 /\ \E e \in drains' : e.gen = d.gen /\ e.pc \in {"gap", "gapNow"}]_vars
  /\ [][\A d \in drains :
          (/\ d.gen = queueGeneration /\ speechQueue # <<>>
           /\ \/ op' = "gapTimer" /\ d.pc = "gap" /\ d \notin drains'
              \/ op' = "resume" /\ d.pc = "gapNow" /\ Head(microtasks) = d.gen) =>
            /\ speechQueue' = Tail(speechQueue)
            /\ \E e \in drains' : /\ e.gen = d.gen /\ e.res = Head(speechQueue).res
                                  /\ e.pc \in {"speak", "speakNow"}]_vars
C11_Witness ==
  /\ op = "resume"
  /\ repeatReductionEnabled
  /\ Len(launched) = 1
  /\ lastSpoken = launched[1].text
  /\ resolved = <<1, 2>>
  /\ speechQueue # <<>>
  /\ \E d \in drains : d.gen = queueGeneration /\ d.pc = "gap"


\* C12: with repetition reduction enabled and a previous utterance present,
\* the text handed to the output process is a contiguous, trimmed part of the
\* new text, and when the new text and the previous one differ in one whole
\* word (the same number of words, all equal but one) a process is launched
\* and is handed exactly that word.
C12_ReducedToChangedWord ==
  [][(repeatReductionEnabled /\ lastSpoken # Empty /\ lastSpoken' # lastSpoken) =>
       LET new == lastSpoken'
           nw == Words(new)
           lw == Words(lastSpoken)
           changed == {i \in 1..Len(nw) : Len(lw) = Len(nw) /\ nw[i] # lw[i]}
       IN /\ Len(launched') = Len(launched) + 1 =>
               LET l == launched'[Len(launched')]
               IN /\ l.text = new
                  /\ l.spoken = Trim(l.spoken)
                  /\ \E a \in 0..Len(new), b \in 0..Len(new) : l.spoken = Slice(new, a, b)
          /\ Cardinality(changed) = 1 =>
               /\ Len(launched') = Len(launched) + 1
               /\ \A i \in changed : launched'[Len(launched')].spoken = nw[i]]_vars


\* C13: from the emission of speech-started until the emission of
\* speech-finished the listening coordinator holds no active input process and
\* the hear handler is not invoked; the process that was listening when speech
\* started is terminated and its transcript discarded, and hear(handler)
\* called while speaking starts no process.
C13_QuietWhileSpeaking ==
  /\ [](speechOn => hearActiveProcess = NoProcess)
  /\ [][(speechOn /\ speechOn') => heard' = <<>>]_vars
  /\ [][(~speechOn /\ speechOn' /\ hearActiveProcess # NoProcess) =>
          /\ \A p \in hearProcs' : p.id = hearActiveProcess => p.killed
          /\ lastLine' = Empty]_vars
  /\ [][(speechOn /\ op' = "hear") => hearProcs' = hearProcs]_vars


\* C14: with a hear handler registered, once speech-finished has been emitted
\* (at least one say() call was made and speech is not on) an input process is
\* active, and it is the single one listening (every other input process still
\* alive has been killed), until the next speech-started, stop() or hear(false).
C14_ListeningAfterFinish ==
  (nCalls >= 1 /\ ~speechOn /\ currentCallback # 0) =>
    /\ hearActiveProcess # NoProcess
    /\ \A p \in hearProcs : ~p.killed => p.id = hearActiveProcess


\* C15: hear(false) and the stop function leave no handler registered and no
\* process handle, with the process that was active killed; and while no
\* handler is registered (until hear(handler) is called again) no step starts
\* an input process or invokes a handler, whatever exit, data, silence-timer,
\* speech-started or speech-finished events follow.
C15_StoppedStaysStopped ==
  /\ [](currentCallback = 0 => (hearActiveProcess = NoProcess /\ ~shouldRestart))
  /\ [][(op' = "hearStop" \/ (op' = "silence" /\ currentCallback # 0 /\ currentCallback' = 0)) =>
          /\ currentCallback' = 0
          /\ ~silenceTimer'
          /\ lastLine' = Empty
          /\ \A p \in hearProcs' : p.id = hearActiveProcess => p.killed]_vars
  /\ [][(currentCallback = 0 /\ op' # "hear") =>
          /\ currentCallback' = 0
          /\ heard' = <<>>
          /\ hearActiveProcess' = NoProcess
          /\ \A p \in hearProcs' : p \in hearProcs \/ op' = "data"
          /\ Cardinality(hearProcs') <= Cardinality(hearProcs)]_vars
C15_Witness ==
  /\ op = "silence"
  /\ currentCallback = 0
  /\ lastLine # Empty
  /\ heard = <<>>
  /\ hearProcs # {}
  /\ nCalls >= 1 /\ ~speechOn


\* C16: hear(newHandler) called while the coordinator holds an input process
\* registers the new handler and restarts nothing: no input process is killed
\* or spawned, the handle, the restart flag and the accumulated transcript are
\* unchanged, nothing is delivered, the speech engine is untouched, and the
\* silence timer is left as it is unless the call changes the silence timeout
\* (then it is re-armed).  A handler changes only by hear() or stop, and a
\* final event goes to the handler registered when the timer fires: the next
\* final event after the swap goes to the new handler, not to the old one.
C16_HotSwap ==
  /\ [][(op' = "hear" /\ hearActiveProcess # NoProcess) =>
          /\ currentCallback' = nHear' /\ currentCallback' # currentCallback
          /\ hearProcs' = hearProcs
          /\ hearActiveProcess' = hearActiveProcess
          /\ shouldRestart' = shouldRestart
          /\ lastLine' = lastLine
          /\ heard' = <<>> /\ emitted' = <<>>
          /\ silenceTimer' = (silenceTimer \/ timeoutDuration' # timeoutDuration)
          /\ <<speechQueue, pendingInterrupt, activeProcess, lastSpoken, speaking,
               processingQueue, queueGeneration, drains, microtasks, sayProcs>>'
             = <<speechQueue, pendingInterrupt, activeProcess, lastSpoken, speaking,
                 processingQueue, queueGeneration, drains, microtasks, sayProcs>>]_vars
  /\ [][op' \notin {"hear", "hearStop", "silence"} => currentCallback' = currentCallback]_vars
  /\ [][op' = "silence" =>
          /\ currentCallback' \in {currentCallback, 0}
          /\ \A i \in 1..Len(heard') : heard'[i].cb = currentCallback]_vars
C16_Witness ==
  /\ op = "hear"
  /\ currentCallback = 2
  /\ hearActiveProcess # NoProcess
  /\ lastLine # Empty
  /\ timeoutDuration = DefaultTimeoutMs
  /\ \A p \in hearProcs : ~p.killed


\* C17: while the mute flag is set the listening coordinator delivers no
\* transcript event to the hear handler: no step taken with the flag set
\* invokes a handler.
C17_MutedDeliversNothing ==
  [][hearMuted => heard' = <<>>]_vars


\* C18: say('') changes nothing, in every state and whatever the options: no
\* process is launched or killed, no event is emitted, the queue, the pending
\* interrupt, the latest slot, the flags, the generation counter, the drains
\* and the gap are as before, and no completion is left to resolve (none is
\* handed out that is not already resolved).
C18_EmptyTextNoOp ==
  [][op' = "sayEmpty" =>
       /\ emitted' = <<>> /\ heard' = <<>>
       /\ <<speechQueue, latestEntry, pendingInterrupt, activeProcess, lastSpoken, speaking,
            processingQueue, repeatReductionEnabled, gapDuration, gapStartListeners,
            gapCompletionResolver, queueGeneration, drains, microtasks, sayProcs>>'
          = <<speechQueue, latestEntry, pendingInterrupt, activeProcess, lastSpoken, speaking,
              processingQueue, repeatReductionEnabled, gapDuration, gapStartListeners,
              gapCompletionResolver, queueGeneration, drains, microtasks, sayProcs>>
       /\ <<hearActiveProcess, currentCallback, silenceTimer, lastLine, shouldRestart, hearProcs>>'
          = <<hearActiveProcess, currentCallback, silenceTimer, lastLine, shouldRestart, hearProcs>>
       /\ <<nCalls, launched, resolved, speechOn>>' = <<nCalls, launched, resolved, speechOn>>]_vars
C18_Witness ==
  /\ op = "sayEmpty"
  /\ processingQueue /\ speaking
  /\ speechQueue = <<>> /\ pendingInterrupt = <<>> /\ activeProcess = NoProcess
  /\ \E d \in drains : d.pc = "speakNow"


\* C19: a say(false) made directly after a say(false) emits no event,
\* resolves nothing, kills no process, and leaves the queue, the pending
\* interrupt, the latest slot, the active handle, speaking, processingQueue,
\* the gap resolver, the drains and the microtask queue as the first call left
\* them (the generation counter alone goes up by one).
C19_HaltIdempotent ==
  [][(op = "halt" /\ op' = "halt") =>
       /\ emitted' = <<>>
       /\ resolved' = resolved
       /\ sayProcs' = sayProcs
       /\ <<speechQueue, pendingInterrupt, latestEntry, activeProcess, speaking,
            processingQueue, gapCompletionResolver, drains, microtasks, lastSpoken, launched>>'
          = <<speechQueue, pendingInterrupt, latestEntry, activeProcess, speaking,
              processingQueue, gapCompletionResolver, drains, microtasks, lastSpoken, launched>>
       /\ queueGeneration' = queueGeneration + 1]_vars
C19_Witness ==
  /\ op = "halt"
  /\ nHalts = 2 /\ nCalls = 1
  /\ lastCall.interrupted = Empty
  /\ \E p \in sayProcs : p.killed
  /\ \E d \in drains : d.pc = "speak" /\ d.res = 1
  /\ resolved = <<>>
  /\ emitted = <<>>


\* C20: signalGapSpeechComplete() called when the current drain has no gap
\* open (the engine is idle, an item is being spoken, or the gap was abandoned
\* by a rude interrupt or a halt) has no effect: the call emits nothing, changes
\* no engine state and queues no continuation, so no gap-ended event follows
\* from it.
C20_SignalWithoutGapNoOp ==
  [][(op' = "signal" /\ ~ \E d \in drains : d.pc = "gap" /\ d.gen = queueGeneration) =>
       /\ emitted' = <<>>
       /\ <<speechQueue, latestEntry, pendingInterrupt, activeProcess, lastSpoken, speaking,
            processingQueue, gapCompletionResolver, queueGeneration, drains, microtasks,
            sayProcs, launched, resolved>>'
          = <<speechQueue, latestEntry, pendingInterrupt, activeProcess, lastSpoken, speaking,
              processingQueue, gapCompletionResolver, queueGeneration, drains, microtasks,
              sayProcs, launched, resolved>>]_vars


\* C21: when the gap duration is zero or negative, or no gap-started
\* subscriber is registered, the step that completes an item (the exit of its
\* process, or the continuation after a skipped duplicate) emits neither
\* gap-started nor gap-ended, arms no gap timer and installs no completion
\* signal: the drain that has more work is queued as a continuation that runs
\* before any timer or process event.
C21_NoGapWithoutDurationOrSubscriber ==
  [][ ( /\ gapDuration <= 0 \/ gapStartListeners = <<>>
        /\ \/ op' = "exit"
           \/ op' = "resume" /\ \E d \in drains : d.gen = Head(microtasks) /\ d.pc = "speakNow" )
      => /\ \A i \in 1..Len(emitted') : emitted'[i] \notin {"gapStart", "gapEnd"}
         /\ gapCompletionResolver' = gapCompletionResolver
         /\ \A d \in drains' \ drains :
              /\ d.pc \in {"gapNow", "speak", "speakNow"}
              /\ d.pc = "gapNow" => d.gen \in Range(microtasks') ]_vars

\* An item has completed with the duration at zero and a subscriber registered,
\* more work is queued, and the drain continues without a gap.
C21_Witness ==
  /\ op = "exit"
  /\ gapDuration = 0
  /\ gapStartListeners # <<>>
  /\ speechQueue # <<>>
  /\ emitted = <<>>
  /\ \E d \in drains : d.gen = queueGeneration /\ d.pc = "gapNow"


\* C22: repetition reduction never alters a bracketed control tag: the text
\* handed to each output process is a stretch of the call's text (trimmed)
\* that contains each tag of the text whole or not at all, so it never holds
\* a fragment of a tag.
C22_TagsKeptWhole ==
  \A n \in 1..Len(launched) :
    LET t == launched[n].text
        tags == { ij \in (1..Len(t)) \X (1..Len(t)) :
                    /\ ij[1] + 3 <= ij[2]
                    /\ t[ij[1]] = "[" /\ t[ij[1] + 1] = "["
                    /\ t[ij[2] - 1] = "]" /\ t[ij[2]] = "]"
                    /\ \A k \in (ij[1] + 2)..(ij[2] - 2) : t[k] \notin {"[", "]"} }
    IN \E from \in 0..Len(t), to \in 0..Len(t) :
         /\ from <= to
         /\ launched[n].spoken = Trim(Slice(t, from, to))
         /\ \A ij \in tags : \/ (from < ij[1] /\ ij[2] <= to)
                              \/ ij[2] <= from
                              \/ to < ij[1]


\* C23 (as stated): the rate of each output process is
\* round(MIN + min(w, P)/P * (MAX - MIN)) with w the word count of the item's
\* text plus that of the entries still queued; it lies in [MIN, MAX], is not
\* below the rate of any smaller w, and is MAX when w >= P.
C23_RateOfItemWords ==
  [][ Len(launched') = Len(launched) + 1 =>
      LET lo == IF env.MIN_RATE # 0 THEN env.MIN_RATE ELSE 200
          hi == IF env.MAX_RATE # 0 THEN env.MAX_RATE ELSE 300
          P == IF env.WORD_QUEUE_PLATEAU # 0 THEN env.WORD_QUEUE_PLATEAU ELSE 30
          wordsOf(t) == Cardinality({ k \in 1..Len(t) :
                          t[k] \notin SpaceChars /\ (k = 1 \/ t[k - 1] \in SpaceChars) })
          w == wordsOf(launched'[Len(launched')].text)
               + Cardinality({ <<n, k>> \in (1..Len(speechQueue')) \X (1..3) :
                     k <= Len(speechQueue'[n].text)
                     /\ speechQueue'[n].text[k] \notin SpaceChars
                     /\ (k = 1 \/ speechQueue'[n].text[k - 1] \in SpaceChars) })
          \* r is round(x / (2P)) for 2P * r - P <= x < 2P * r + P
          isRate(r, v) == LET x == 2 * (lo * P + Min(v, P) * (hi - lo))
                          IN 2 * P * r - P <= x /\ x < 2 * P * r + P
          rate == rates'[Len(rates')]
      IN /\ Len(rates') = Len(launched')
         /\ isRate(rate, w)
         /\ lo <= rate /\ rate <= hi
         /\ \A v \in 0..w : \A r \in Min(lo, hi)..Max(lo, hi) : isRate(r, v) => r <= rate
         /\ w >= P => rate = hi ]_vars

\* C23 (amended): the same with w counted over the text handed to the
\* process, which is the item's text after repetition reduction, and the
\* range and the growth with w asserted when MIN <= MAX.
C23_RateOfSpokenWords ==
  [][ Len(launched') = Len(launched) + 1 =>
      LET lo == IF env.MIN_RATE # 0 THEN env.MIN_RATE ELSE 200
          hi == IF env.MAX_RATE # 0 THEN env.MAX_RATE ELSE 300
          P == IF env.WORD_QUEUE_PLATEAU # 0 THEN env.WORD_QUEUE_PLATEAU ELSE 30
          wordsOf(t) == Cardinality({ k \in 1..Len(t) :
                          t[k] \notin SpaceChars /\ (k = 1 \/ t[k - 1] \in SpaceChars) })
          w == wordsOf(launched'[Len(launched')].spoken)
               + Cardinality({ <<n, k>> \in (1..Len(speechQueue')) \X (1..3) :
                     k <= Len(speechQueue'[n].text)
                     /\ speechQueue'[n].text[k] \notin SpaceChars
                     /\ (k = 1 \/ speechQueue'[n].text[k - 1] \in SpaceChars) })
          isRate(r, v) == LET x == 2 * (lo * P + Min(v, P) * (hi - lo))
                          IN 2 * P * r - P <= x /\ x < 2 * P * r + P
          rate == rates'[Len(rates')]
      IN /\ Len(rates') = Len(launched')
         /\ isRate(rate, w)
         /\ w >= P => rate = hi
         /\ lo <= hi =>
              /\ lo <= rate /\ rate <= hi
              /\ \A v \in 0..w : \A r \in lo..hi : isRate(r, v) => r <= rate ]_vars

\* An item is launched at the maximum rate, with as many words outstanding
\* as the plateau, after an item that was launched below it.
C23_Witness ==
  /\ env = [MIN_RATE |-> 150, MAX_RATE |-> 175, WORD_QUEUE_PLATEAU |-> 2]
  /\ rates = <<163, 175>>
  /\ launched[2].spoken = TextB
  /\ speechQueue # <<>>


\* C24: an exception thrown by a subscriber during an emission is caught at
\* the emission site: no exception leaves the emitting call, and every
\* subscriber of the emission is invoked, in registration order, also those
\* registered after one that throws (here for the mute-changed and the
\* gap-started emissions).
C24_FaultySubscriberContained ==
  /\ ~thrown
  /\ op = "setHearMuted" => invoked = muteListeners
  /\ "gapStart" \in Range(emitted) => invoked = gapStartListeners


\* C25: each registration returns an unregister handle.  The first call of
\* a handle takes one occurrence of its listener out of the list and leaves
\* the other listeners and their order as they were; a further call of the
\* same handle changes nothing; and an emission invokes only listeners that
\* have a registration whose handle was not called.
C25_UnregisterHandle ==
  [][ /\ \A k \in 1..Len(handles) :
           (Len(handles') = Len(handles) /\ handles'[k].calls = handles[k].calls + 1) =>
             IF handles[k].calls = 0
             THEN \E i \in 1..Len(gapStartListeners) :
                    /\ gapStartListeners[i] = handles[k].listener
                    /\ gapStartListeners' = SubSeq(gapStartListeners, 1, i - 1)
                                              \o SubSeq(gapStartListeners, i + 1,
                                                        Len(gapStartListeners))
             ELSE gapStartListeners' = gapStartListeners
      /\ \A n \in 1..Len(invoked') :
           \E k \in 1..Len(handles) :
             handles[k].listener = invoked'[n] /\ handles[k].calls = 0 ]_vars


\* C26: a loopback(text) call resolves at most once; its silence countdown
\* is armed only when the completion of its say(text) has resolved; and when
\* it finishes by silence timeout, no output process is speaking its text
\* and the value is the last non-blank line its input process produced, the
\* empty string if there is none.
C26_LoopbackAfterSpeech ==
  [][ /\ Len(loop'.results) <= 1
      /\ loop'.silenceTimer => loop'.res \in Range(resolved')
      /\ (Len(loop'.results) > Len(loop.results)
            /\ loop'.results[Len(loop'.results)].by = "silence")
          => /\ ~(activeProcess' # NoProcess /\ lastSpoken' = loop'.text)
             /\ LET said == SelectSeq(loop'.produced, LAMBDA l : Trim(l) # Empty)
                    value == loop'.results[Len(loop'.results)].value
                IN value = IF said = <<>> THEN Empty ELSE said[Len(said)] ]_vars


\* C27: gap-started and gap-ended strictly alternate, beginning with
\* gap-started: a step emits gap-started only when no gap is open and
\* gap-ended only when one is, also after a rude interrupt or a halt during
\* the gap and when both the timer and the completion signal occur.
C27_GapEventsAlternate ==
  [][ LET ev == SelectSeq(emitted', LAMBDA e : e \in {"gapStart", "gapEnd"})
      IN /\ ev # <<>> => (ev[1] = "gapStart") = ~gapOn
         /\ \A i \in 1..(Len(ev) - 1) : ev[i] # ev[i + 1] ]_vars


\* C28: with a positive gap duration and a gap-started subscriber
\* registered, a gap is opened exactly when the current drain has serviced
\* an item and the queue is non-empty or an interrupt is pending: gap-started
\* is emitted only by such a step, and the drain is then left waiting in the
\* gap; a drain with more work never goes on without one (it is queued to
\* continue at once only when its gap has just ended); the step that
\* completes an item launches nothing; and the end of the current drain's
\* gap is followed by the next item, not by a second gap nor by
\* speech-finished.
C28_GapIffMoreWork ==
  [][ (gapDuration > 0 /\ gapStartListeners # <<>>) =>
      /\ \A e \in drains' \ drains :
           e.gen = queueGeneration' =>
             /\ e.pc = "gap" =>
                  /\ "gapStart" \in Range(emitted')
                  /\ op' \in {"exit", "resume"}
                  /\ speechQueue' # <<>> \/ pendingInterrupt' # <<>>
             /\ e.pc = "gapNow" =>
                  /\ op' = "resume"
                  /\ \E d \in drains : d.gen = Head(microtasks) /\ d.gen = e.gen /\ d.pc = "gapEnd"
      /\ "gapStart" \in Range(emitted') =>
           \E e \in drains' \ drains : e.gen = queueGeneration' /\ e.pc = "gap"
      /\ (op' = "exit" \/ (op' = "resume" /\ \E d \in drains : d.gen = Head(microtasks)
                                                                 /\ d.pc = "speakNow"))
           => launched' = launched /\ lastSpoken' = lastSpoken
      /\ \A d \in drains :
           ( /\ d.gen = queueGeneration
             /\ \/ op' = "gapTimer" /\ d.pc = "gap" /\ \A e \in drains : e.pc = "gap" => d.gen <= e.gen
                \/ op' = "resume" /\ d.pc = "gapNow" /\ d.gen = Head(microtasks) )
           => /\ "finish" \notin Range(emitted')
              /\ "gapStart" \notin Range(emitted')
              /\ \E e \in drains' : e.gen = d.gen /\ e.pc \in {"speak", "speakNow"} ]_vars

\* An item has completed with another entry queued: the gap is open and the
\* drain waits in it.
C28_Witness ==
  /\ op = "exit"
  /\ gapDuration > 0
  /\ gapStartListeners # <<>>
  /\ emitted = <<"gapStart">>
  /\ speechQueue # <<>>
  /\ \E d \in drains : d.gen = queueGeneration /\ d.pc = "gap"


\* C29 (as stated): when the drain services a pending interrupt that asked
\* for queue-clear, every entry in the queue at that moment is completed
\* without being launched, the queue and the latest slot are emptied, and the
\* step launches a process for the interrupt text.
C29_ClearThenLaunch ==
  [][ ( /\ op' \in {"exit", "gapTimer", "resume"}
        /\ pendingInterrupt # <<>> /\ pendingInterrupt' = <<>>
        /\ pendingInterrupt[1].clear )
      => /\ speechQueue' = <<>>
         /\ latestEntry' = <<>>
         /\ \A i \in 1..Len(speechQueue) :
              speechQueue[i].res # 0 =>
                /\ speechQueue[i].res \in Range(resolved')
                /\ \A k \in 1..Len(launched') : launched'[k].res # speechQueue[i].res
         /\ Len(launched') = Len(launched) + 1
         /\ launched'[Len(launched')].res = pendingInterrupt[1].res
         /\ launched'[Len(launched')].text = pendingInterrupt[1].text ]_vars

\* C29 (amended): the same, with the interrupt text launched unless
\* repetition reduction leaves nothing of it against the text spoken last;
\* then the step launches nothing.
C29_ClearThenService ==
  [][ ( /\ op' \in {"exit", "gapTimer", "resume"}
        /\ pendingInterrupt # <<>> /\ pendingInterrupt' = <<>>
        /\ pendingInterrupt[1].clear )
      => LET e == pendingInterrupt[1]
             reduced == IF repeatReductionEnabled /\ lastSpoken # Empty
                        THEN reduceRepetition(e.text, lastSpoken) ELSE e.text
         IN /\ speechQueue' = <<>>
            /\ latestEntry' = <<>>
            /\ \A i \in 1..Len(speechQueue) :
                 speechQueue[i].res # 0 =>
                   /\ speechQueue[i].res \in Range(resolved')
                   /\ \A k \in 1..Len(launched') : launched'[k].res # speechQueue[i].res
            /\ IF reduced = Empty
               THEN launched' = launched /\ lastSpoken' = e.text
               ELSE /\ Len(launched') = Len(launched) + 1
                    /\ launched'[Len(launched')].res = e.res
                    /\ launched'[Len(launched')].text = e.text
                    /\ launched'[Len(launched')].spoken = reduced ]_vars

\* say('a'); say('b', {clear: true}); say('a'); the first process exits: the
\* entry queued after the interrupt request is completed unspoken and the
\* interrupt text is launched.
C29_Witness ==
  /\ op = "resume"
  /\ resolved = <<1, 3>>
  /\ Len(launched) = 2
  /\ launched[2].res = 2
  /\ speechQueue = <<>>
  /\ latestEntry = <<>>
  /\ pendingInterrupt = <<>>



\* C30 (as stated): in every state, a rude interrupt without the clear flag
\* discards no queued entry: the drain it starts takes the rude text and the
\* queue is left with the interrupted text, if a process was active, and then
\* all previously queued entries in their order, none of them completed; with
\* the clear flag every previously queued entry is completed and none is
\* launched.
C30_RudeKeepsQueue ==
  \A text \in {TextA, TextB} : \A o \in {r \in RudeOptions : r.rude} :
    LET s1 == say(Called("rude", text), text, o, nCalls + 1)
        view(q) == [i \in 1..Len(q) |-> <<q[i].text, q[i].res>>]
        interrupted == IF activeProcess # NoProcess THEN lastSpoken ELSE Empty
        requeued == IF interrupted # Empty THEN << <<interrupted, 0>> >> ELSE <<>>
        kept == IF o.clear THEN <<>> ELSE speechQueue
    IN /\ view(s1.speechQueue) = requeued \o view(kept)
       /\ \E d \in s1.drains : d.gen = s1.queueGeneration /\ d.res = nCalls + 1
       /\ \A i \in 1..Len(speechQueue) :
            speechQueue[i].res # 0 =>
              /\ (speechQueue[i].res \in Range(s1.resolved)) = o.clear
              /\ \A k \in 1..Len(s1.launched) : s1.launched[k].res # speechQueue[i].res

\* C30 (amended): the same, except that a rude interrupt with the latest
\* flag and without the clear flag takes the previous latest entry, if it is
\* still queued, out of the queue and completes it unspoken; and a pending
\* polite interrupt is completed unspoken by every rude interrupt.
C30_RudeKeepsQueueButLatest ==
  \A text \in {TextA, TextB} : \A o \in {r \in RudeOptions : r.rude} :
    LET s1 == say(Called("rude", text), text, o, nCalls + 1)
        view(q) == [i \in 1..Len(q) |-> <<q[i].text, q[i].res>>]
        interrupted == IF activeProcess # NoProcess THEN lastSpoken ELSE Empty
        requeued == IF interrupted # Empty THEN << <<interrupted, 0>> >> ELSE <<>>
        superseded(e) == o.latest /\ latestEntry # <<>> /\ latestEntry[1].eid = e.eid
        kept == IF o.clear THEN <<>>
                ELSE SelectSeq(speechQueue, LAMBDA e : ~superseded(e))
    IN /\ view(s1.speechQueue) = requeued \o view(kept)
       /\ \E d \in s1.drains : d.gen = s1.queueGeneration /\ d.res = nCalls + 1
       /\ \A i \in 1..Len(speechQueue) :
            speechQueue[i].res # 0 =>
              /\ (speechQueue[i].res \in Range(s1.resolved))
                   = (o.clear \/ superseded(speechQueue[i]))
              /\ \A k \in 1..Len(s1.launched) : s1.launched[k].res # speechQueue[i].res
       /\ s1.pendingInterrupt = <<>>
       /\ pendingInterrupt # <<>> =>
            /\ pendingInterrupt[1].res \in Range(s1.resolved)
            /\ \A k \in 1..Len(s1.launched) : s1.launched[k].res # pendingInterrupt[1].res

\* say('a'); say('b'); say('b', {rude: true}) while a is spoken: the queue
\* holds the interrupted 'a' and then the entry of the second call.
C30_Witness ==
  /\ op = "rude"
  /\ lastCall.interrupted = TextA
  /\ Len(speechQueue) = 2
  /\ speechQueue[1].text = TextA /\ speechQueue[1].res = 0
  /\ speechQueue[2].res = 2
  /\ 2 \notin Range(resolved)


\* C31: a drain that has been superseded (its generation is no longer the
\* current one) does nothing more when it resumes from its wait on a process
\* exit or on a gap: the step that resumes it launches no output process,
\* emits no speech-finished, gap-started or gap-ended, takes no entry from
\* the queue and leaves speaking, processingQueue, the active handle and the
\* gap completion slot as they are.
C31_SupersededDrainSilent ==
  [][ \A d \in drains :
        (/\ d.gen # queueGeneration
         /\ d \notin drains'
         /\ op' \in {"exit", "gapTimer", "resume"}) =>
        /\ launched' = launched
        /\ Range(emitted') \cap {"finish", "gapStart", "gapEnd"} = {}
        /\ speechQueue' = speechQueue
        /\ pendingInterrupt' = pendingInterrupt
        /\ speaking' = speaking
        /\ processingQueue' = processingQueue
        /\ activeProcess' = activeProcess
        /\ gapCompletionResolver' = gapCompletionResolver ]_vars


\* C32: the completion of an entry whose output process has been launched
\* is not resolved while that process is alive: every live process, killed
\* by a halt or a rude interrupt or not, is awaited by the drain that
\* launched it and the completion of that drain's entry is unresolved; and
\* the step of the process's exit (or spawn error) resolves it.
C32_ResolvedAfterExit ==
  /\ [](\A p \in sayProcs :
          \E d \in drains :
            /\ d.pc = "speak" /\ d.proc = p.id
            /\ d.res # 0 => d.res \notin Range(resolved))
  /\ [][\A p \in sayProcs :
          (op' = "exit" /\ p \notin sayProcs') =>
            \A d \in drains :
              (d.pc = "speak" /\ d.proc = p.id /\ d.res # 0) => d.res \in Range(resolved')]_vars

\* say('a'); say('b', {rude: true}): the process of 'a' is killed and has
\* not exited, its completion is unresolved, and the process of 'b' runs.
C32_Witness ==
  /\ op = "rude"
  /\ \E p \in sayProcs : p.killed
  /\ Cardinality(sayProcs) = 2
  /\ resolved = <<>>
  /\ Len(launched) = 2


\* C33: in every state between two steps, processingQueue = FALSE implies
\* that the queue is empty and no interrupt is pending; and an entry in the
\* queue or in the pending-interrupt slot always has a drain of the current
\* generation that will service it.
C33_IdleMeansNothingWaiting ==
  /\ ~processingQueue => (speechQueue = <<>> /\ pendingInterrupt = <<>>)
  /\ (speechQueue # <<>> \/ pendingInterrupt # <<>>) =>
       \E d \in drains : d.gen = queueGeneration

\* say('a'); say('b'); say(false): the halt leaves processingQueue false
\* with the queue emptied, the queued entry completed and a's process killed.
C33_Witness ==
  /\ op = "halt"
  /\ ~processingQueue
  /\ resolved = <<2>>
  /\ \E p \in sayProcs : p.killed


\* C34: in every state between two steps the latest slot is empty or holds
\* exactly one entry that is in the queue, and it is that entry; a latest
\* request resolves no completion but that of the queued entry the slot
\* holds, so it never touches an entry that was taken for speaking,
\* completed or cleared.
C34_LatestSlotInQueue ==
  /\ [](latestEntry # <<>> =>
          /\ Len(latestEntry) = 1
          /\ Cardinality({i \in 1..Len(speechQueue) :
                            speechQueue[i].eid = latestEntry[1].eid}) = 1
          /\ \E i \in 1..Len(speechQueue) : speechQueue[i] = latestEntry[1]
          /\ latestEntry[1].res \notin Range(resolved)
          /\ \A k \in 1..Len(launched) : launched[k].res # latestEntry[1].res)
  /\ [][op' = "latest" =>
          \A r \in Range(resolved') \ Range(resolved) :
            /\ latestEntry # <<>> /\ latestEntry[1].res = r
            /\ \E i \in 1..Len(speechQueue) : speechQueue[i].res = r]_vars

\* say('a'); say('b', {latest: true}); say('a', {latest: true}): the queued
\* latest entry is rewritten in place and the completion of the second call
\* is resolved.
C34_Witness ==
  /\ op = "latest"
  /\ resolved = <<2>>
  /\ latestEntry = <<[eid |-> 2, text |-> TextA, res |-> 3]>>
  /\ speechQueue = latestEntry


\* C35 (as stated): in every state with processingQueue true, the queue
\* empty, no pending interrupt and no active process, a say(text) request
\* proceeds as from an idle engine: it starts a new drain, speech-started is
\* emitted, speaking and processingQueue are true again, and the requested
\* text is launched by that drain, which holds its completion until the
\* process exits.
C35_SelfHealLaunches ==
  (processingQueue /\ speechQueue = <<>> /\ pendingInterrupt = <<>>
     /\ activeProcess = NoProcess) =>
  \A text \in {TextA, TextB} : \A o \in CoreOptions :
    LET s1 == say(Called(OpName(o), text), text, o, nCalls + 1)
    IN /\ s1.processingQueue /\ s1.speaking
       /\ s1.queueGeneration = queueGeneration + 1
       /\ s1.emitted = <<"start">>
       /\ Len(s1.launched) = Len(launched) + 1
       /\ s1.launched[Len(s1.launched)].text = text
       /\ s1.launched[Len(s1.launched)].res = nCalls + 1
       /\ \E d \in s1.drains :
            d.gen = s1.queueGeneration /\ d.res = nCalls + 1 /\ d.pc = "speak"

\* C35 (amended): the same, except that the requested text is launched only
\* if repetition reduction leaves something of it after the text spoken
\* last; otherwise the new drain skips it without a launch and holds its
\* completion until its continuation runs.
C35_SelfHealServices ==
  (processingQueue /\ speechQueue = <<>> /\ pendingInterrupt = <<>>
     /\ activeProcess = NoProcess) =>
  \A text \in {TextA, TextB} : \A o \in CoreOptions :
    LET s1 == say(Called(OpName(o), text), text, o, nCalls + 1)
        skipped == /\ repeatReductionEnabled /\ lastSpoken # Empty
                   /\ reduceRepetition(text, lastSpoken) = Empty
    IN /\ s1.processingQueue /\ s1.speaking
       /\ s1.queueGeneration = queueGeneration + 1
       /\ s1.emitted = <<"start">>
       /\ s1.speechQueue = <<>> /\ s1.pendingInterrupt = <<>>
       /\ IF skipped
          THEN /\ s1.launched = launched
               /\ \E d \in s1.drains :
                    d.gen = s1.queueGeneration /\ d.res = nCalls + 1 /\ d.pc = "speakNow"
          ELSE /\ Len(s1.launched) = Len(launched) + 1
               /\ s1.launched[Len(s1.launched)].text = text
               /\ s1.launched[Len(s1.launched)].res = nCalls + 1
               /\ \E d \in s1.drains :
                    d.gen = s1.queueGeneration /\ d.res = nCalls + 1 /\ d.pc = "speak"

\* say('a'); say('a'); exit of the first process (the drain skips the
\* duplicate and awaits its continuation); say('b'): a new drain launches b
\* while the old one is still to resume.
C35_Witness ==
  /\ op = "say" /\ nHalts = 0
  /\ emitted = <<"start">>
  /\ \E d \in drains : d.pc = "speakNow" /\ d.gen = queueGeneration - 1
  /\ \E d \in drains : d.pc = "speak" /\ d.gen = queueGeneration /\ d.res = nCalls
  /\ launched[Len(launched)].text = TextB


\* C36: speech-started and speech-finished strictly alternate, beginning
\* with speech-started: a step emits speech-started only when speech is not
\* on and speech-finished only when it is, under any interleaving of plain
\* calls, polite and rude interrupts and halts; and speech-finished is
\* emitted only with the queue empty and no interrupt pending.
C36_StartFinishAlternate ==
  [][ LET ev == SelectSeq(emitted', LAMBDA e : e \in {"start", "finish"})
      IN /\ ev # <<>> => (ev[1] = "start") = ~speechOn
         /\ \A i \in 1..(Len(ev) - 1) : ev[i] # ev[i + 1]
         /\ "finish" \in Range(emitted') =>
              (speechQueue' = <<>> /\ pendingInterrupt' = <<>>) ]_vars


\* C37: in every state between two steps speaking equals processingQueue,
\* and an active output-process handle exists only while both are true.
C37_SpeakingIsProcessing ==
  /\ speaking = processingQueue
  /\ activeProcess # NoProcess => (speaking /\ processingQueue)

\* say('a'); say(false) while a is spoken: both flags are false, the handle
\* is dropped and the killed process has not exited yet.
C37_Witness ==
  /\ op = "halt"
  /\ lastCall.interrupted = TextA
  /\ ~speaking /\ ~processingQueue
  /\ activeProcess = NoProcess
  /\ sayProcs = {[id |-> 1, killed |-> TRUE]}


\* C38: the state that the self-healing step repairs (processingQueue
\* true, the queue empty, no interrupt pending, no active process) is not
\* reachable: no say() call, which can be made in any state, and no
\* lifecycle listener finds the engine in it.
C38_StuckStateUnreachable ==
  ~(/\ processingQueue
    /\ speechQueue = <<>>
    /\ pendingInterrupt = <<>>
    /\ activeProcess = NoProcess)


\* C39: during one emission every listener that was registered when the
\* emission began and is still registered when its turn comes is invoked
\* exactly once, also when a listener calls its own or another listener's
\* unregister handle during that emission: a registration that is still
\* there after the emission was invoked, and no registration was invoked
\* twice.
C39_EachListenerOnce ==
  [][ \A l \in ListenerNames :
        LET count(q) == Cardinality({i \in 1..Len(q) : q[i] = l})
        IN /\ op' = "setHearMuted" =>
                /\ count(invoked') >= count(muteListeners')
                /\ count(invoked') <= count(muteListeners)
           /\ "gapStart" \in Range(emitted') =>
                /\ count(invoked') >= count(gapStartListeners')
                /\ count(invoked') <= count(gapStartListeners) ]_vars


\* C40: a rude interrupt, with or without the clear flag, made while a
\* polite interrupt is pending completes that interrupt in the same step,
\* launches nothing for it and leaves the pending-interrupt slot empty; and
\* no step launches a process for a completion that is already resolved, so
\* the text of the dropped interrupt is never launched later either.
C40_RudeDropsPendingPolite ==
  /\ [][(op' = "rude" /\ pendingInterrupt # <<>>) =>
          /\ pendingInterrupt' = <<>>
          /\ pendingInterrupt[1].res \in Range(resolved')
          /\ \A k \in 1..Len(launched') : launched'[k].res # pendingInterrupt[1].res]_vars
  /\ [][\A k \in (Len(launched) + 1)..Len(launched') :
          launched'[k].res = 0 \/ launched'[k].res \notin Range(resolved)]_vars

\* say('a'); say('b', {interrupt: true}); say('b', {rude: true}) while a is
\* spoken: the polite interrupt is completed, only a and the rude b were
\* launched, and the interrupted a waits in the queue.
C40_Witness ==
  /\ op = "rude"
  /\ pendingInterrupt = <<>>
  /\ resolved = <<2>>
  /\ Len(launched) = 2
  /\ launched[1].res = 1 /\ launched[2].res = 3 /\ launched[2].text = TextB
  /\ Len(speechQueue) = 1 /\ speechQueue[1].res = 0

====
